---------------------------- MODULE Spec2Model ----------------------------
(***************************************************************************)
(* AirDraw: the gesture-driven input pipeline (components/VideoCanvas.tsx, *)
(* the variant with the explicit "Start Hand Detection" step), the toolbar *)
(* with its enhance cooldown (components/Toolbar.tsx), the App state       *)
(* (App.tsx) and the client side of the enhancement call                   *)
(* (services/geminiService.ts).                                            *)
(*                                                                         *)
(* Conventions.                                                            *)
(*  - An optional value (T | null) is a sequence: <<>> is null, <<v>> is v.*)
(*  - Landmark coordinates are normalised to [0,1]; the model holds them   *)
(*    in hundredths (0..100).                                              *)
(*  - Screen coordinates are exact rationals held as integers in units of  *)
(*    1/Scale pixel, so that lerp with the gain 1/5 is computed without    *)
(*    rounding for as many hand frames as a run of the model can hold.     *)
(*  - React state updates made by one handler are committed together, and  *)
(*    the DOM (the enhance button's disabled property) shows the committed *)
(*    state.                                                               *)
(***************************************************************************)
EXTENDS Integers, Sequences, FiniteSets

----------------------------------------------------------------------------
(* Bounds of the model *)

\* iterations of predictWebcam in a run of the stroke specification
MaxFrames == 9
\* iterations of predictWebcam in a run of the full specification
MaxSysFrames == 2
\* timer ticks in a run of the full specification
MaxSysTicks == 2
\* iterations of predictWebcam in a run of the orchestrator specification
MaxOrchFrames == 3
\* iterations of predictWebcam in a run of the classifier specification
MaxPinchFrames == 3
\* iterations of predictWebcam in a run of the surface specification
MaxCanvasFrames == 3
\* iterations of predictWebcam in a run of the lifecycle specification
MaxLifeFrames == 3
\* iterations of predictWebcam in a run of the hit-test specification
MaxHitFrames == 4
\* accepted enhancement triggers in a run
MaxRequests == 2
\* iterations of predictWebcam in a run of the client with every kind of step
MaxClientFrames == 3
\* invocations of the analyze-drawing function in a run
MaxInvocations == 2
\* iterations of predictWebcam in a run of the version whose router calls
\* handleAnalyze itself
MaxDirectFrames == 4

----------------------------------------------------------------------------
(* Program constants *)

\* Toolbar.tsx:6
ANALYZE_COOLDOWN_MS == 10000
\* Toolbar.tsx:46,49  the interval's period and its decrement
COOLDOWN_STEP_MS == 100
\* VideoCanvas.tsx:370  PINCH_THRESHOLD = 0.12, in hundredths
PINCH_THRESHOLD == 12
\* VideoCanvas.tsx:371  SMOOTHING_FACTOR = 0.2 = SmoothNum / SmoothDen
SmoothNum == 1
SmoothDen == 5
\* VideoCanvas.tsx:581  HAVE_CURRENT_DATA
HAVE_CURRENT_DATA == 2
\* App.tsx:9
DefaultBrushSize == 8
\* App.tsx:8  COLORS[1].value, cyan
DefaultColor == "#00ffff"

\* the palette and the brush sizes offered by the toolbar (types.ts COLORS and
\* BRUSH_SIZES, as listed in README.md): the model keeps two of each
COLORS == {"#00ffff", "#ff00ff"}
BRUSH_SIZES == {8, 12}

\* units per pixel
Scale == SmoothDen ^ MaxFrames

Null == <<>>
Some(v) == <<v>>

----------------------------------------------------------------------------
(* State *)

VARIABLES
    \* App.tsx:8-11
    color, brushSize, enhancedImage, isAnalysing,
    \* Toolbar.tsx:27
    cooldownRemaining,
    \* VideoCanvas.tsx:400-403
    isLoading, hasCameraPermission, isDetectionInitialized, isPinching,
    \* VideoCanvas.tsx:405-409 (refs)
    lastPoint, currentCursor, handLandmarkerRef, animationFrameId, isDrawingRef,
    \* the props seen by the running predictWebcam closure
    loopProps,
    \* the DOM: stroke canvas, cursor canvas, viewport
    canvas, cursorCanvas, viewport,
    \* where setupHandLandmarker / startCamera are suspended
    setupPc,
    \* enhancement requests awaiting their response, and errors escaped
    pending, uncaught,
    \* history: requests issued, predictWebcam iterations, the last step,
    \* the current run of pinching frames and the run before it
    outbound, frames, ev, runPoints, runSegs, prevRun,
    \* history: time since the last accepted trigger, in ms, as the interval
    \* of the cooldown measures it
    sinceAccept,
    \* the components are mounted (the refs to the DOM elements are set)
    mounted,
    \* the browser's animation frame callbacks not yet run, by request id
    scheduled,
    \* history: the target the cursor has been approaching, the cursor's offset
    \* from it when the approach began, and the hand frames since
    approach,
    \* the analyze-drawing function: which version of it is deployed, the
    \* SDK client it built when its module was loaded (analyze-drawing.ts:5),
    \* and where the invocation being served is suspended
    deployed, ai, srvPc,
    \* the event being served, what it has sent to Gemini, how that call
    \* settled, and the response of the handler
    event, geminiCalls, geminiOutcome, result,
    \* history: the invocations served
    invocations,
    \* the text an analysis returned, in the version of the application whose
    \* router calls handleAnalyze itself (VideoCanvas.tsx:18 and 165)
    analysisResult

appVars == <<color, brushSize, enhancedImage, isAnalysing>>
initVars == <<isLoading, hasCameraPermission, isDetectionInitialized,
              handLandmarkerRef, setupPc, loopProps, mounted>>
loopVars == <<isPinching, lastPoint, currentCursor, animationFrameId, isDrawingRef,
              canvas, cursorCanvas, frames, runPoints, runSegs, prevRun, scheduled,
              approach>>
serverVars == <<deployed, ai, srvPc, event, geminiCalls, geminiOutcome, result,
                invocations>>
clientVars == <<color, brushSize, enhancedImage, isAnalysing, cooldownRemaining,
                isLoading, hasCameraPermission, isDetectionInitialized, isPinching,
                lastPoint, currentCursor, handLandmarkerRef, animationFrameId,
                isDrawingRef, loopProps, canvas, cursorCanvas, viewport, setupPc,
                pending, uncaught, outbound, frames, ev, runPoints, runSegs, prevRun,
                sinceAccept, mounted, scheduled, approach, analysisResult>>
vars == <<color, brushSize, enhancedImage, isAnalysing, cooldownRemaining,
          isLoading, hasCameraPermission, isDetectionInitialized, isPinching,
          lastPoint, currentCursor, handLandmarkerRef, animationFrameId,
          isDrawingRef, loopProps, canvas, cursorCanvas, viewport, setupPc,
          pending, uncaught, outbound, frames, ev, runPoints, runSegs, prevRun,
          sinceAccept, mounted, scheduled, approach, deployed, ai, srvPc, event,
          geminiCalls, geminiOutcome, result, invocations, analysisResult>>

----------------------------------------------------------------------------
(* Values *)

Point(x, y) == [x |-> x, y |-> y]

\* an HTML canvas before any size is assigned
DefaultCanvasWidth == 300
DefaultCanvasHeight == 150
BlankCanvas(w, h) == [width |-> w, height |-> h, segs |-> <<>>]

\* viewport sizes (window.innerWidth, window.innerHeight), in pixels
Viewports == {[width |-> 40, height |-> 20], [width |-> 20, height |-> 20]}
InitialViewport == [width |-> 40, height |-> 20]

\* what the video element reports to one iteration
VideoNotReady == [readyState |-> 1, videoWidth |-> 0, videoHeight |-> 0]
VideoNoSize == [readyState |-> 2, videoWidth |-> 0, videoHeight |-> 0]
VideoPlaying == [readyState |-> 4, videoWidth |-> 64, videoHeight |-> 48]
Videos == {VideoNotReady, VideoNoSize, VideoPlaying}

\* results.landmarks of one detection: Null, or the index tip (landmark 8)
\* and the thumb tip (landmark 4) of the one hand, in hundredths
Hand(ix, iy, tx, ty) == Some([indexTip |-> Point(ix, iy), thumbTip |-> Point(tx, ty)])
NoHand == Null
PinchA == Hand(25, 50, 30, 50)
PinchB == Hand(75, 50, 75, 45)
HoverB == Hand(75, 50, 75, 70)
\* hands whose thumb tip lies at these offsets from the index tip: inside,
\* on and outside the circle of radius PINCH_THRESHOLD
ProbeOffsets == {<<0, 0>>, <<5, 0>>, <<8, 8>>, <<11, 4>>, <<0, -11>>,
                 <<12, 0>>, <<0, 12>>, <<-12, 0>>,
                 <<11, 5>>, <<8, 9>>, <<13, 0>>}
PinchProbes == {Hand(ix, 50, ix + o[1], 50 + o[2]) : ix \in {25, 50}, o \in ProbeOffsets}

\* a decimal string, as a sequence of digits
RECURSIVE ToDecimal(_)
ToDecimal(n) == IF n < 10 THEN <<n>> ELSE Append(ToDecimal(n \div 10), n % 10)
RECURSIVE parseInt(_)
parseInt(digits) ==
    IF Len(digits) = 1 THEN digits[1]
    ELSE 10 * parseInt(SubSeq(digits, 1, Len(digits) - 1)) + digits[Len(digits)]

\* the element document.elementFromPoint returns, by its data attributes
\* ("" and <<>> stand for an absent attribute)
Element(c, s, a) == [dataColor |-> c, dataSize |-> s, dataAction |-> a]
NoElement == Element("", <<>>, "")
ColorSwatch(c) == Element(c, <<>>, "")
SizeButton(n) == Element("", ToDecimal(n), "")
ClearButton == Element("", <<>>, "clear")
AnalyzeButton == Element("", <<>>, "analyze")
Elements == {NoElement, ClearButton, AnalyzeButton}
                \cup {ColorSwatch(c) : c \in COLORS}
                \cup {SizeButton(n) : n \in BRUSH_SIZES}

\* how the fetch of enhanceDrawing settles
Outcomes == {"image", "httpError", "noImageField", "badJson", "networkError"}

NoEv == [op |-> "init", trigger |-> "none", drawn |-> Null,
         sel |-> [color |-> DefaultColor, brush |-> DefaultBrushSize],
         outcome |-> "", video |-> Null, detected |-> FALSE, hand |-> Null,
         hit |-> Null]
Ev(op) == [NoEv EXCEPT !.op = op]

----------------------------------------------------------------------------
(* Request orchestrator: Toolbar.handleAnalyzeClick, VideoCanvas.handleAnalyze,
   geminiService.enhanceDrawing *)

\* the orchestrator's part of the state, as a record
Orch == [isAnalysing |-> isAnalysing, cooldownRemaining |-> cooldownRemaining,
         enhancedImage |-> enhancedImage, pending |-> pending, outbound |-> outbound]

SetOrch(o) ==
    /\ isAnalysing' = o.isAnalysing
    /\ cooldownRemaining' = o.cooldownRemaining
    /\ enhancedImage' = o.enhancedImage
    /\ pending' = o.pending
    /\ outbound' = o.outbound
    /\ sinceAccept' = IF o.outbound > outbound THEN 0 ELSE sinceAccept

\* Toolbar.tsx:32-33
isOnCooldown(o) == o.cooldownRemaining > 0
isButtonDisabled_IgnoresAnalysing(o) == isOnCooldown(o)
isButtonDisabled_IgnoresCooldown(o) == o.isAnalysing
isButtonDisabled(o) == o.isAnalysing \/ isOnCooldown(o)

handleAnalyze_KeepsImage(o, snapshot) ==
    [o EXCEPT !.isAnalysing = TRUE,
              !.pending = Append(@, snapshot),
              !.outbound = @ + 1]

handleAnalyze_SubmitsBlank(o, snapshot) ==
    [o EXCEPT !.isAnalysing = TRUE,
              !.enhancedImage = Null,
              !.pending = Append(@, <<>>),
              !.outbound = @ + 1]

\* VideoCanvas.tsx:550-554, up to the await: the snapshot is canvas.toDataURL
handleAnalyze(o, snapshot) ==
    [o EXCEPT !.isAnalysing = TRUE,
              !.enhancedImage = Null,
              !.pending = Append(@, snapshot),
              !.outbound = @ + 1]

handleAnalyzeClick_RestartsCooldown(o, snapshot) ==
    IF isButtonDisabled(o) THEN [o EXCEPT !.cooldownRemaining = ANALYZE_COOLDOWN_MS]
    ELSE [handleAnalyze(o, snapshot) EXCEPT !.cooldownRemaining = ANALYZE_COOLDOWN_MS]

\* Toolbar.tsx:35-39; onAnalyze dispatches triggerAnalyze (App.tsx:46-49), whose
\* listener calls handleAnalyze (VideoCanvas.tsx:560-567)
handleAnalyzeClick(o, snapshot) ==
    IF isButtonDisabled(o) THEN o
    ELSE [handleAnalyze(o, snapshot) EXCEPT !.cooldownRemaining = ANALYZE_COOLDOWN_MS]

CooldownStep_Twice(prev) ==
    LET next == prev - 2 * COOLDOWN_STEP_MS IN IF next <= 0 THEN 0 ELSE next

CooldownStep_Seconds(prev) ==
    LET next == prev - 10 * COOLDOWN_STEP_MS IN IF next <= 0 THEN 0 ELSE next

CooldownStep_StopsShort(prev) ==
    LET next == prev - COOLDOWN_STEP_MS IN IF next <= 0 THEN prev ELSE next

\* Toolbar.tsx:45-48, the interval's updater
CooldownStep(prev) ==
    LET next == prev - COOLDOWN_STEP_MS IN IF next <= 0 THEN 0 ELSE next

\* a settled promise
Resolved(v) == [rejected |-> FALSE, value |-> v]
Rejected == [rejected |-> TRUE, value |-> ""]

EnhancedImageUrl == "data:image/png;base64,ENHANCED"

enhanceDrawing_NoCatch(outcome) ==
    IF outcome \in {"networkError", "httpError", "badJson"} THEN Rejected
    ELSE IF outcome = "noImageField" THEN Resolved("")
    ELSE Resolved(EnhancedImageUrl)

\* geminiService.ts:7-29
enhanceDrawing(outcome) ==
    IF outcome = "networkError" THEN Resolved("")        \* fetch rejects: catch
    ELSE IF outcome = "httpError" THEN Resolved("")      \* !response.ok: throw, catch
    ELSE IF outcome = "badJson" THEN Resolved("")        \* response.json() rejects: catch
    ELSE IF outcome = "noImageField" THEN Resolved("")   \* data.enhancedImage || ''
    ELSE Resolved(EnhancedImageUrl)

handleAnalyzeResume_DropsIfCleared(o, i, settled) ==
    LET rest == SubSeq(o.pending, 1, i - 1) \o SubSeq(o.pending, i + 1, Len(o.pending))
        kept == \A k \in 1..Len(o.pending[i]) :
                   \E j \in 1..Len(canvas.segs) : canvas.segs[j] = o.pending[i][k]
    IN IF settled.rejected \/ ~kept
       THEN [o EXCEPT !.pending = rest]
       ELSE [o EXCEPT !.pending = rest,
                      !.enhancedImage = IF settled.value = "" THEN Null
                                        ELSE Some(settled.value),
                      !.isAnalysing = FALSE]

handleAnalyzeResume_StaysBusyOnEmpty(o, i, settled) ==
    LET rest == SubSeq(o.pending, 1, i - 1) \o SubSeq(o.pending, i + 1, Len(o.pending))
    IN IF settled.rejected \/ settled.value = ""
       THEN [o EXCEPT !.pending = rest]
       ELSE [o EXCEPT !.pending = rest,
                      !.enhancedImage = Some(settled.value),
                      !.isAnalysing = FALSE]

handleAnalyzeResume_NoNullFallback(o, i, settled) ==
    LET rest == SubSeq(o.pending, 1, i - 1) \o SubSeq(o.pending, i + 1, Len(o.pending))
    IN IF settled.rejected
       THEN [o EXCEPT !.pending = rest]
       ELSE [o EXCEPT !.pending = rest,
                      !.enhancedImage = Some(settled.value),
                      !.isAnalysing = FALSE]

handleAnalyzeResume_RetriesOnEmpty(o, i, settled) ==
    LET rest == SubSeq(o.pending, 1, i - 1) \o SubSeq(o.pending, i + 1, Len(o.pending))
    IN IF settled.rejected
       THEN [o EXCEPT !.pending = rest]
       ELSE IF settled.value = ""
       THEN [o EXCEPT !.pending = Append(rest, o.pending[i]), !.outbound = @ + 1]
       ELSE [o EXCEPT !.pending = rest,
                      !.enhancedImage = Some(settled.value),
                      !.isAnalysing = FALSE]

\* VideoCanvas.tsx:555-556, after the await: result || null
handleAnalyzeResume(o, i, settled) ==
    LET rest == SubSeq(o.pending, 1, i - 1) \o SubSeq(o.pending, i + 1, Len(o.pending))
    IN IF settled.rejected
       THEN [o EXCEPT !.pending = rest]
       ELSE [o EXCEPT !.pending = rest,
                      !.enhancedImage = IF settled.value = "" THEN Null
                                        ELSE Some(settled.value),
                      !.isAnalysing = FALSE]

----------------------------------------------------------------------------
(* Frame loop: VideoCanvas.predictWebcam and what it calls *)

\* VideoCanvas.tsx:498-500, squared (the square root is monotone, so
\* getDistance(p1, p2) < t  iff  getDistanceSq(p1, p2) < t * t)
getDistanceSq(p1, p2) == (p2.x - p1.x) * (p2.x - p1.x) + (p2.y - p1.y) * (p2.y - p1.y)

isPinchingNow_AtOrBelow(landmarks) ==
    getDistanceSq(landmarks.indexTip, landmarks.thumbTip) <= PINCH_THRESHOLD * PINCH_THRESHOLD

isPinchingNow_Documented(landmarks) ==
    getDistanceSq(landmarks.indexTip, landmarks.thumbTip) < 8 * 8

\* VideoCanvas.tsx:621
isPinchingNow(landmarks) ==
    getDistanceSq(landmarks.indexTip, landmarks.thumbTip) < PINCH_THRESHOLD * PINCH_THRESHOLD

lerp_Snap(start, end) == end

\* VideoCanvas.tsx:502-504 with amt = SmoothNum / SmoothDen
lerp(start, end) == ((SmoothDen - SmoothNum) * start + SmoothNum * end) \div SmoothDen

\* VideoCanvas.tsx:626-627: mirrored and scaled to the canvas, in 1/Scale pixel
targetX(landmarks, cv) == (((100 - landmarks.indexTip.x) * cv.width) \div 100) * Scale
targetY(landmarks, cv) == ((landmarks.indexTip.y * cv.height) \div 100) * Scale

\* VideoCanvas.tsx:629-631
SmoothedCursor_RestartsAtTarget(landmarks, cv) ==
    LET from == IF cursorCanvas.glyph # Null THEN currentCursor
                ELSE Point(targetX(landmarks, cv), targetY(landmarks, cv))
    IN Point(lerp(from.x, targetX(landmarks, cv)), lerp(from.y, targetY(landmarks, cv)))

SmoothedCursor(landmarks, cv) ==
    Point(lerp(currentCursor.x, targetX(landmarks, cv)),
          lerp(currentCursor.y, targetY(landmarks, cv)))

clearCanvas_KeepsSurface(st) == [st EXCEPT !.orch.enhancedImage = Null]

\* VideoCanvas.tsx:540-547 and App.handleClear (App.tsx:14-19): the triggerClear
\* event it dispatches has no listener. st is [color, brushSize, canvas, orch].
clearCanvas(st) ==
    [st EXCEPT !.canvas.segs = <<>>, !.orch.enhancedImage = Null]

checkUiCollisions_ActsOnFirstFrame(element, st) ==
    LET s1 == IF element.dataColor # ""
              THEN [st EXCEPT !.color = element.dataColor] ELSE st
        s2 == IF element.dataSize # <<>>
              THEN [s1 EXCEPT !.brushSize = parseInt(element.dataSize)] ELSE s1
        s3 == IF element.dataAction = "clear" THEN clearCanvas(s2) ELSE s2
    IN IF element.dataAction = "analyze" /\ ~isButtonDisabled(s3.orch)
       THEN [s3 EXCEPT !.orch = handleAnalyzeClick(s3.orch, s3.canvas.segs)]
       ELSE s3

checkUiCollisions_NoButtonGuard(element, st) ==
    IF ~isDrawingRef THEN st
    ELSE LET s1 == IF element.dataColor # ""
                   THEN [st EXCEPT !.color = element.dataColor] ELSE st
             s2 == IF element.dataSize # <<>>
                   THEN [s1 EXCEPT !.brushSize = parseInt(element.dataSize)] ELSE s1
             s3 == IF element.dataAction = "clear" THEN clearCanvas(s2) ELSE s2
         IN IF element.dataAction = "analyze"
            THEN [s3 EXCEPT !.orch = [handleAnalyze(s3.orch, s3.canvas.segs)
                                         EXCEPT !.cooldownRemaining = ANALYZE_COOLDOWN_MS]]
            ELSE s3

\* VideoCanvas.tsx:506-538; the button's click() runs handleAnalyzeClick
checkUiCollisions(element, st) ==
    IF ~isDrawingRef THEN st
    ELSE LET s1 == IF element.dataColor # ""
                   THEN [st EXCEPT !.color = element.dataColor] ELSE st
             s2 == IF element.dataSize # <<>>
                   THEN [s1 EXCEPT !.brushSize = parseInt(element.dataSize)] ELSE s1
             s3 == IF element.dataAction = "clear" THEN clearCanvas(s2) ELSE s2
         IN IF element.dataAction = "analyze" /\ ~isButtonDisabled(s3.orch)
            THEN [s3 EXCEPT !.orch = handleAnalyzeClick(s3.orch, s3.canvas.segs)]
            ELSE s3

\* VideoCanvas.tsx:648-655
Segment(props, from, to) ==
    [from |-> from, to |-> to, color |-> props.selectedColor, width |-> props.brushSize]

HoverLastPoint_Kept == lastPoint
HoverLastPoint_FollowsCursor == Some(currentCursor)
NoHandLastPoint_Kept == lastPoint

\* VideoCanvas.tsx:674 and 678: lastPoint.current = null
HoverLastPoint == Null
NoHandLastPoint == Null

\* the history of runs after a processed frame: a pinching frame with a hand
\* extends the current run, any other processed frame ends it
RunExtended(p, drawn) ==
    /\ runPoints' = Append(runPoints, p)
    /\ runSegs' = runSegs \o drawn
    /\ prevRun' = prevRun

RunEnded(how) ==
    /\ runPoints' = <<>>
    /\ runSegs' = <<>>
    /\ prevRun' = IF runPoints = <<>> THEN prevRun
                  ELSE [points |-> Len(runPoints), segs |-> Len(runSegs),
                        endedBy |-> how]

\* VideoCanvas.tsx:581 and 588: the video has no current frame, or no size
VideoSkipped_IgnoresSize(video) == video.readyState < HAVE_CURRENT_DATA

VideoSkipped(video) ==
    \/ video.readyState < HAVE_CURRENT_DATA
    \/ video.videoWidth = 0
    \/ video.videoHeight = 0

NeedsResize_HeightOnly == canvas.height # viewport.height

\* VideoCanvas.tsx:595: the stroke canvas has not the size of the window
NeedsResize ==
    \/ canvas.width # viewport.width
    \/ canvas.height # viewport.height

\* the history of the smoothing after a frame with a hand: the approach goes
\* on while the target is the one of the frame before
NoApproach == [target |-> Null, offset0 |-> Point(0, 0), n |-> 0]
Approached(landmarks, cv) ==
    LET t == Point(targetX(landmarks, cv), targetY(landmarks, cv))
    IN IF approach.target = Some(t)
       THEN [approach EXCEPT !.n = @ + 1]
       ELSE [target |-> Some(t),
             offset0 |-> Point(t.x - currentCursor.x, t.y - currentCursor.y),
             n |-> 1]

\* VideoCanvas.tsx:570-684, one iteration. props is what the closure holds of
\* selectedColor and brushSize; video, hand and element are what the video
\* element, the detector and document.elementFromPoint return to it; queue is
\* the callbacks still requested when it runs. The id of the callback it
\* requests is the number of the iteration.
predictWebcam(props, video, hand, element, queue) ==
    IF ~mounted \/ ~handLandmarkerRef
    THEN \* 571: return, nothing scheduled
         /\ ev' = Ev("return")
         /\ scheduled' = queue
         /\ UNCHANGED <<appVars, cooldownRemaining, pending, outbound, sinceAccept,
                        isPinching, lastPoint, currentCursor, animationFrameId,
                        isDrawingRef, canvas, cursorCanvas, frames, runPoints,
                        runSegs, prevRun, approach>>
    ELSE IF VideoSkipped(video)
    THEN \* 581-592: skip and reschedule
         /\ animationFrameId' = Some(frames + 1)
         /\ scheduled' = queue \cup {frames + 1}
         /\ frames' = frames + 1
         /\ ev' = [Ev("skip") EXCEPT !.video = Some(video)]
         /\ UNCHANGED <<appVars, cooldownRemaining, pending, outbound, sinceAccept, isPinching,
                        lastPoint, currentCursor, isDrawingRef, canvas, cursorCanvas,
                        runPoints, runSegs, prevRun, approach>>
    ELSE LET \* 595-604: assigning canvas.width resets the canvas
             resize == NeedsResize
             cv == IF resize THEN BlankCanvas(viewport.width, viewport.height)
                   ELSE canvas
             cc == IF resize THEN viewport ELSE cursorCanvas
             sel == [color |-> color, brush |-> brushSize]
             st0 == [color |-> color, brushSize |-> brushSize, canvas |-> cv,
                     orch |-> Orch]
             seen == [Ev("frame") EXCEPT !.sel = sel, !.video = Some(video),
                                         !.detected = TRUE, !.hand = hand]
         IN /\ animationFrameId' = Some(frames + 1)
            /\ scheduled' = queue \cup {frames + 1}
            /\ frames' = frames + 1
            /\ IF hand = NoHand
               THEN \* 677-681
                    /\ lastPoint' = NoHandLastPoint
                    /\ isDrawingRef' = FALSE
                    /\ isPinching' = FALSE
                    /\ canvas' = cv
                    /\ cursorCanvas' = [width |-> cc.width, height |-> cc.height,
                                        glyph |-> Null]
                    /\ RunEnded("noHand")
                    /\ ev' = seen
                    /\ UNCHANGED <<appVars, cooldownRemaining, pending, outbound, sinceAccept,
                                   currentCursor, approach>>
               ELSE LET landmarks == hand[1]
                        pinch == isPinchingNow(landmarks)
                        p == SmoothedCursor(landmarks, cv)
                        \* 634-636
                        st1 == IF pinch THEN checkUiCollisions(element, st0) ELSE st0
                        \* 648-655
                        drawn == IF pinch /\ lastPoint # Null
                                 THEN <<Segment(props, lastPoint[1], p)>> ELSE <<>>
                        tried == pinch /\ isDrawingRef /\ element.dataAction = "analyze"
                    IN /\ isPinching' = pinch
                       /\ currentCursor' = p
                       /\ approach' = Approached(landmarks, cv)
                       /\ color' = st1.color
                       /\ brushSize' = st1.brushSize
                       /\ SetOrch(st1.orch)
                       /\ canvas' = [st1.canvas EXCEPT !.segs = @ \o drawn]
                       /\ cursorCanvas' =
                              [width |-> cc.width, height |-> cc.height,
                               glyph |-> Some([kind |-> IF pinch THEN "active" ELSE "hover",
                                               at |-> p, color |-> props.selectedColor])]
                       /\ lastPoint' = IF pinch THEN Some(p) ELSE HoverLastPoint
                       /\ isDrawingRef' = pinch
                       /\ IF pinch THEN RunExtended(p, drawn) ELSE RunEnded("release")
                       /\ ev' = [seen EXCEPT
                                   !.drawn = drawn,
                                   !.hit = IF pinch THEN Some(element) ELSE Null,
                                   !.trigger = IF ~tried THEN "none"
                                               ELSE IF st1.orch.outbound > outbound
                                               THEN "accepted" ELSE "rejected"]

----------------------------------------------------------------------------
(* Initial state: the components are mounted, setupHandLandmarker is awaiting
   the detector *)

Init ==
    /\ color = DefaultColor
    /\ brushSize = DefaultBrushSize
    /\ enhancedImage = Null
    /\ isAnalysing = FALSE
    /\ cooldownRemaining = 0
    /\ isLoading = TRUE
    /\ hasCameraPermission = FALSE
    /\ isDetectionInitialized = FALSE
    /\ isPinching = FALSE
    /\ lastPoint = Null
    /\ currentCursor = Point(0, 0)
    /\ handLandmarkerRef = FALSE
    /\ animationFrameId = Null
    /\ isDrawingRef = FALSE
    /\ loopProps = [selectedColor |-> DefaultColor, brushSize |-> DefaultBrushSize]
    /\ canvas = BlankCanvas(DefaultCanvasWidth, DefaultCanvasHeight)
    /\ cursorCanvas = [width |-> DefaultCanvasWidth, height |-> DefaultCanvasHeight,
                       glyph |-> Null]
    /\ viewport = InitialViewport
    /\ setupPc = "createDetector"
    /\ pending = <<>>
    /\ uncaught = FALSE
    /\ outbound = 0
    /\ sinceAccept = 0
    /\ frames = 0
    /\ ev = NoEv
    /\ runPoints = <<>>
    /\ runSegs = <<>>
    /\ prevRun = [points |-> 0, segs |-> 0, endedBy |-> ""]
    /\ mounted = TRUE
    /\ scheduled = {}
    /\ approach = NoApproach
    /\ deployed = ""
    /\ ai = Null
    /\ srvPc = "notLoaded"
    /\ event = Null
    /\ geminiCalls = <<>>
    /\ geminiOutcome = Null
    /\ result = Null
    /\ invocations = 0
    /\ analysisResult = Null

----------------------------------------------------------------------------
(* Initialization: VideoCanvas.tsx:418-496 *)

\* 421-435 and 449-451: the detector is built; startCamera runs up to
\* getUserMedia, or returns at once when videoRef.current is null. A state
\* setter of an unmounted component changes nothing.
DetectorCreated ==
    /\ setupPc = "createDetector"
    /\ handLandmarkerRef' = TRUE
    /\ isLoading' = (isLoading /\ ~mounted)
    /\ setupPc' = IF mounted THEN "getUserMedia" ELSE "returned"
    /\ ev' = Ev("setup")
    /\ UNCHANGED <<appVars, cooldownRemaining, hasCameraPermission,
                   isDetectionInitialized, loopProps, viewport, pending, uncaught, serverVars, analysisResult,
                   outbound, sinceAccept, loopVars, mounted>>

DetectorFailed_StartsCamera ==
    /\ setupPc = "createDetector"
    /\ isLoading' = (isLoading /\ ~mounted)
    /\ setupPc' = "getUserMedia"
    /\ ev' = Ev("setup")
    /\ UNCHANGED <<appVars, cooldownRemaining, hasCameraPermission,
                   isDetectionInitialized, handLandmarkerRef, loopProps, viewport,
                   pending, uncaught, serverVars, analysisResult, outbound, sinceAccept, loopVars, mounted>>

\* 436-439: building the detector threw
DetectorFailed ==
    /\ setupPc = "createDetector"
    /\ isLoading' = (isLoading /\ ~mounted)
    /\ setupPc' = "failed"
    /\ ev' = Ev("setup")
    /\ UNCHANGED <<appVars, cooldownRemaining, hasCameraPermission,
                   isDetectionInitialized, handLandmarkerRef, loopProps, viewport,
                   pending, uncaught, serverVars, analysisResult, outbound, sinceAccept, loopVars, mounted>>

CameraGranted_Ready ==
    /\ setupPc = "getUserMedia"
    /\ setupPc' = IF mounted THEN "awaitVideo" ELSE "denied"
    /\ hasCameraPermission' = mounted
    /\ ev' = Ev("setup")
    /\ UNCHANGED <<appVars, cooldownRemaining, isLoading, isDetectionInitialized,
                   handLandmarkerRef, loopProps, viewport, pending, uncaught, serverVars, analysisResult,
                   outbound, sinceAccept, loopVars, mounted>>

\* 451-480: the stream is acquired; wait for the video to report frame data.
\* 458 throws when videoRef.current is null, and 485-488 catch it.
CameraGranted ==
    /\ setupPc = "getUserMedia"
    /\ setupPc' = IF mounted THEN "awaitVideo" ELSE "denied"
    /\ ev' = Ev("setup")
    /\ UNCHANGED <<appVars, cooldownRemaining, isLoading, hasCameraPermission,
                   isDetectionInitialized, handLandmarkerRef, loopProps, viewport,
                   pending, uncaught, serverVars, analysisResult, outbound, sinceAccept, loopVars, mounted>>

\* 485-488: getUserMedia rejected
CameraDenied ==
    /\ setupPc = "getUserMedia"
    /\ hasCameraPermission' = FALSE
    /\ setupPc' = "denied"
    /\ ev' = Ev("setup")
    /\ UNCHANGED <<appVars, cooldownRemaining, isLoading, isDetectionInitialized,
                   handLandmarkerRef, loopProps, viewport, pending, uncaught, serverVars, analysisResult,
                   outbound, sinceAccept, loopVars, mounted>>

\* 463-482: readyState >= 2 was observed
VideoLoaded ==
    /\ setupPc = "awaitVideo"
    /\ hasCameraPermission' = (mounted \/ hasCameraPermission)
    /\ setupPc' = "cameraReady"
    /\ ev' = Ev("setup")
    /\ UNCHANGED <<appVars, cooldownRemaining, isLoading, isDetectionInitialized,
                   handLandmarkerRef, loopProps, viewport, pending, uncaught, serverVars, analysisResult,
                   outbound, sinceAccept, loopVars, mounted>>

\* 705 and 726-727: the Start Hand Detection button is rendered
StartButtonOffered_AlwaysShown == mounted /\ ~isLoading /\ hasCameraPermission

StartButtonOffered ==
    mounted /\ ~isLoading /\ hasCameraPermission /\ ~isDetectionInitialized

\* 491-496: the click runs the first iteration itself, and every later
\* iteration is the same closure
initializeHandDetection(video, hand) ==
    /\ StartButtonOffered
    /\ isDetectionInitialized' = TRUE
    /\ loopProps' = [selectedColor |-> color, brushSize |-> brushSize]
    /\ predictWebcam(loopProps', video, hand, NoElement, scheduled)
    /\ UNCHANGED <<isLoading, hasCameraPermission, handLandmarkerRef, viewport,
                   setupPc, uncaught, serverVars, analysisResult, mounted>>

\* a requested callback runs (requestAnimationFrame(predictWebcam)): the
\* browser takes it off its list and calls it
AnimationFrame(video, hand, element) ==
    /\ \E id \in scheduled :
          predictWebcam(loopProps, video, hand, element, scheduled \ {id})
    /\ UNCHANGED <<initVars, viewport, uncaught, serverVars, analysisResult>>

\* the window is resized
WindowResized(v) ==
    /\ v # viewport
    /\ viewport' = v
    /\ ev' = Ev("resize")
    /\ UNCHANGED <<appVars, cooldownRemaining, initVars, pending, uncaught, serverVars, analysisResult,
                   outbound, sinceAccept, loopVars>>

----------------------------------------------------------------------------
(* Toolbar and result overlay, by direct click *)

\* Toolbar.tsx:110 -> App.setColor
SelectColorClick(c) ==
    /\ mounted
    /\ color' = c
    /\ ev' = Ev("select")
    /\ UNCHANGED <<brushSize, enhancedImage, isAnalysing, cooldownRemaining, initVars,
                   viewport, pending, uncaught, serverVars, analysisResult, outbound, sinceAccept, loopVars>>

\* Toolbar.tsx:137 -> App.setBrushSize
SelectSizeClick(n) ==
    /\ mounted
    /\ brushSize' = n
    /\ ev' = Ev("select")
    /\ UNCHANGED <<color, enhancedImage, isAnalysing, cooldownRemaining, initVars,
                   viewport, pending, uncaught, serverVars, analysisResult, outbound, sinceAccept, loopVars>>

\* Toolbar.tsx:186 -> App.handleClear (App.tsx:14-19); nothing listens to the
\* triggerClear event it dispatches
ClearClick ==
    /\ mounted
    /\ enhancedImage' = Null
    /\ ev' = Ev("clearClick")
    /\ UNCHANGED <<color, brushSize, isAnalysing, cooldownRemaining, initVars,
                   viewport, pending, uncaught, serverVars, analysisResult, outbound, sinceAccept, loopVars>>

\* App.tsx:60 and 68
DismissImage ==
    /\ mounted
    /\ enhancedImage # Null
    /\ enhancedImage' = Null
    /\ ev' = Ev("dismiss")
    /\ UNCHANGED <<color, brushSize, isAnalysing, cooldownRemaining, initVars,
                   viewport, pending, uncaught, serverVars, analysisResult, outbound, sinceAccept, loopVars>>

\* Toolbar.tsx:159: a click on the enhance button
AnalyzeClick ==
    LET o == handleAnalyzeClick(Orch, canvas.segs)
    IN /\ mounted
       /\ SetOrch(o)
       /\ ev' = [Ev("click") EXCEPT
                   !.trigger = IF o.outbound > outbound THEN "accepted" ELSE "rejected"]
       /\ UNCHANGED <<color, brushSize, initVars, viewport, uncaught, serverVars, analysisResult, loopVars>>

\* Toolbar.tsx:41-52: the interval exists while cooldownRemaining > 0
CooldownTick ==
    /\ mounted
    /\ cooldownRemaining > 0
    /\ cooldownRemaining' = CooldownStep(cooldownRemaining)
    /\ sinceAccept' = sinceAccept + COOLDOWN_STEP_MS
    /\ ev' = Ev("tick")
    /\ UNCHANGED <<appVars, initVars, viewport, pending, uncaught, serverVars, analysisResult, outbound, loopVars>>

\* the fetch of request i settles and handleAnalyze resumes; the state
\* setters of an unmounted App change nothing
FetchSettles(i, outcome) ==
    /\ i \in 1..Len(pending)
    /\ LET settled == enhanceDrawing(outcome)
           o == handleAnalyzeResume(Orch, i, settled)
       IN /\ SetOrch(IF mounted THEN o ELSE [Orch EXCEPT !.pending = o.pending])
          /\ uncaught' = (uncaught \/ settled.rejected)
    /\ ev' = [Ev("response") EXCEPT !.outcome = outcome]
    /\ UNCHANGED <<color, brushSize, initVars, viewport, loopVars, serverVars, analysisResult>>

\* VideoCanvas.tsx:443-445: the components are unmounted; React sets the refs
\* to the DOM elements to null and runs the cleanup of the setup effect (the
\* cleanups at Toolbar.tsx:51 and VideoCanvas.tsx:564-566 end the cooldown
\* interval and the triggerAnalyze listener)
Unmount_NoCancel ==
    /\ mounted
    /\ mounted' = FALSE
    /\ scheduled' = scheduled
    /\ ev' = Ev("unmount")
    /\ UNCHANGED <<appVars, cooldownRemaining, isLoading, hasCameraPermission,
                   isDetectionInitialized, handLandmarkerRef, setupPc, loopProps,
                   viewport, pending, uncaught, serverVars, analysisResult, outbound, sinceAccept, isPinching,
                   lastPoint, currentCursor, animationFrameId, isDrawingRef, canvas,
                   cursorCanvas, frames, runPoints, runSegs, prevRun, approach>>

Unmount ==
    /\ mounted
    /\ mounted' = FALSE
    /\ scheduled' = IF animationFrameId # Null
                    THEN scheduled \ {animationFrameId[1]} ELSE scheduled
    /\ ev' = Ev("unmount")
    /\ UNCHANGED <<appVars, cooldownRemaining, isLoading, hasCameraPermission,
                   isDetectionInitialized, handLandmarkerRef, setupPc, loopProps,
                   viewport, pending, uncaught, serverVars, analysisResult, outbound, sinceAccept, isPinching,
                   lastPoint, currentCursor, animationFrameId, isDrawingRef, canvas,
                   cursorCanvas, frames, runPoints, runSegs, prevRun, approach>>

----------------------------------------------------------------------------
(* The analyze-drawing function: netlify/functions/analyze-drawing.ts, and the
   version of it that reads the candidates under the result's response field.
   A text is a sequence of tokens; <<>> is the empty string. *)

\* process.env.GEMINI_API_KEY at the load of the module: a key Gemini accepts
\* or one it does not
Keys == {"AIza-accepted", "AIza-refused"}
KeyAccepted(key) == key = "AIza-accepted"

Versions == {"analyze-drawing.ts", "part_002"}

\* analyze-drawing.ts:5
GoogleGenAI(key) == [apiKey |-> key]

\* the value of the imageData member of a parsed body
JsonString(s) == [type |-> "string", s |-> s, n |-> 0]
JsonNumber(n) == [type |-> "number", s |-> <<>>, n |-> n]
JsonNull == [type |-> "null", s |-> <<>>, n |-> 0]

\* event.body as a text: an object with or without imageData, the text null,
\* a text that is no JSON, the empty text
ObjectText(members) == [json |-> "object", imageData |-> members]
NullText == [json |-> "null", imageData |-> Null]
InvalidText == [json |-> "invalid", imageData |-> Null]
EmptyText == [json |-> "empty", imageData |-> Null]

PngUrl == <<"data:image/png;base64,", "PNG-DATA">>
JpegUrl == <<"data:image/jpeg;base64,", "JPEG-DATA">>
GifUrl == <<"data:image/gif;base64,", "GIF-DATA">>
BareData == <<"BARE-DATA">>
PngUrlOfPngUrl == <<"data:image/png;base64,", "data:image/png;base64,", "PNG-DATA">>

Bodies ==
    {Null, Some(EmptyText), Some(NullText), Some(InvalidText), Some(ObjectText(Null)),
     Some(ObjectText(Some(JsonString(<<>>)))), Some(ObjectText(Some(JsonNull))),
     Some(ObjectText(Some(JsonNumber(0)))), Some(ObjectText(Some(JsonNumber(7))))}
    \cup {Some(ObjectText(Some(JsonString(s)))) :
             s \in {PngUrl, JpegUrl, GifUrl, BareData, PngUrlOfPngUrl}}

Events == {[httpMethod |-> m, body |-> b] : m \in {"GET", "POST", "PUT"}, b \in Bodies}

\* geminiService.ts:9-17: the request enhanceDrawing sends
enhanceDrawingRequest(base64Image) ==
    [httpMethod |-> "POST",
     body |-> Some(ObjectText(Some(JsonString(base64Image))))]

\* the response of the handler; the body is the object that JSON.stringify
\* turns into text
HttpResponse(status, headers, error, message, image) ==
    [statusCode |-> status, headers |-> headers,
     body |-> [error |-> error, message |-> message, enhancedImage |-> image]]

\* a thrown value: an Error with its message, or a value that is no Error
Error(message) == [isError |-> TRUE, message |-> message]
NonError == [isError |-> FALSE, message |-> <<>>]

\* the result of generateContent: candidates, each with a content of parts, at
\* the top of the result or under its response member
TextPart == [inlineData |-> Null]
InlinePart(mimeType, data) == [inlineData |-> Some([mimeType |-> mimeType, data |-> data])]
ImagePart(subtype, data) == InlinePart(Some(<<"image", subtype>>), Some(<<data>>))
Candidate(parts) == [content |-> Some([parts |-> Some(parts)])]
AtTop(cands) == [response |-> Null, candidates |-> Some(cands)]
UnderResponse(cands) == [response |-> Some([candidates |-> Some(cands)]), candidates |-> Null]

\* first candidates that hold an image part, and first candidates that do not
WithImage ==
    {<<Candidate(<<ImagePart("/png", "ENHANCED")>>)>>,
     <<Candidate(<<TextPart, ImagePart("/jpeg", "ENHANCED-2")>>)>>}
WithoutImage ==
    {<<>>,
     <<[content |-> Null]>>,
     <<[content |-> Some([parts |-> Null])]>>,
     <<Candidate(<<>>)>>,
     <<Candidate(<<TextPart>>)>>,
     <<Candidate(<<InlinePart(Some(<<"text", "/plain">>), Some(<<"NOTES">>))>>)>>,
     <<Candidate(<<InlinePart(Some(<<"image", "/png">>), Some(<<>>))>>)>>,
     <<Candidate(<<InlinePart(Some(<<"image", "/png">>), Null)>>)>>,
     <<Candidate(<<InlinePart(Null, Some(<<"ENHANCED">>))>>)>>,
     <<Candidate(<<TextPart>>), Candidate(<<ImagePart("/png", "ENHANCED")>>)>>}

GeminiResults ==
    {AtTop(c) : c \in WithImage \cup WithoutImage}
    \cup {UnderResponse(c) : c \in WithImage \cup WithoutImage}
    \cup {[response |-> Null, candidates |-> Null],
          [response |-> Some([candidates |-> Null]), candidates |-> Null],
          [response |-> Some([candidates |-> Some(<<>>)]),
           candidates |-> Some(<<Candidate(<<ImagePart("/png", "ENHANCED")>>)>>)]}

\* how the call settles: with a result, or by throwing
GeminiResolves(r) == [rejected |-> FALSE, value |-> r, thrown |-> NonError]
GeminiThrows(e) == [rejected |-> TRUE, value |-> [response |-> Null, candidates |-> Null],
                    thrown |-> e]

\* what Gemini can answer to a client with this key (part_001:368-374: an
\* invalid key is the way to the error path)
GeminiOutcomes(client) ==
    IF KeyAccepted(client.apiKey)
    THEN {GeminiResolves(r) : r \in GeminiResults}
         \cup {GeminiThrows(Error(<<"fetch failed">>)), GeminiThrows(NonError)}
    ELSE {GeminiThrows(Error(<<"API key not valid. Please pass a valid API key.">>)),
          GeminiThrows(Error(<<"fetch failed">>))}

\* analyze-drawing.ts:7-13
enhancementInstructions == <<"enhancementInstructions">>

\* analyze-drawing.ts:17-22
MethodNotAllowed == HttpResponse(405, Null, Some("Method not allowed"), Null, Null)

\* analyze-drawing.ts:27-32
NoImageData == HttpResponse(400, Null, Some("No image data provided"), Null, Null)

CaughtError_StatusOk(error) ==
    HttpResponse(200, Null, Some("Failed to enhance drawing"),
                 Some(IF error.isError THEN error.message ELSE <<"Unknown error">>), Null)

CaughtError_ForwardsClient(error) ==
    HttpResponse(500, Null, Some("Failed to enhance drawing"),
                 Some(IF error.isError THEN error.message \o <<ai[1].apiKey>>
                      ELSE <<"Unknown error">>), Null)

\* analyze-drawing.ts:77-86
CaughtError(error) ==
    HttpResponse(500, Null, Some("Failed to enhance drawing"),
                 Some(IF error.isError THEN error.message ELSE <<"Unknown error">>), Null)

\* analyze-drawing.ts:25, event.body || '{}': an absent or empty body is read
\* as the empty object
BodyText(e) ==
    IF e.body = Null \/ e.body[1].json = "empty" THEN ObjectText(Null) ELSE e.body[1]

\* analyze-drawing.ts:27, !imageData
Falsy(member) ==
    \/ member = Null
    \/ member[1].type = "null"
    \/ member[1].type = "string" /\ member[1].s = <<>>
    \/ member[1].type = "number" /\ member[1].n = 0

\* analyze-drawing.ts:35: the pattern is anchored at the start of the text
base64Data(imageData) ==
    IF imageData # <<>> /\ imageData[1] \in {"data:image/png;base64,", "data:image/jpeg;base64,"}
    THEN Tail(imageData) ELSE imageData

\* analyze-drawing.ts:37-57, the request made through the client
generateContentRequest(client, data) ==
    [apiKey |-> client.apiKey,
     model |-> "gemini-2.5-flash-image",
     parts |-> <<[text |-> Some(enhancementInstructions), inlineData |-> Null],
                 [text |-> Null,
                  inlineData |-> Some([mimeType |-> "image/png", data |-> data])]>>,
     responseModalities |-> <<"IMAGE">>]

Returns(response) == [returned |-> Some(response), called |-> Null]
Calls(request) == [returned |-> Null, called |-> Some(request)]

handlerStart_InvalidIsMissing(client, e) ==
    LET text == BodyText(e)
    IN IF e.httpMethod # "POST" THEN Returns(MethodNotAllowed)
       ELSE IF text.json \in {"invalid", "null"} \/ Falsy(text.imageData)
       THEN Returns(NoImageData)
       ELSE IF text.imageData[1].type # "string"
       THEN Returns(CaughtError(Error(<<"TypeError: imageData.replace is not a function">>)))
       ELSE Calls(generateContentRequest(client, base64Data(text.imageData[1].s)))

handlerStart_ParsesFirst(client, e) ==
    LET text == BodyText(e)
    IN IF text.json = "invalid"
       THEN Returns(CaughtError(Error(<<"SyntaxError: not valid JSON">>)))
       ELSE IF e.httpMethod # "POST" THEN Returns(MethodNotAllowed)
       ELSE IF text.json = "null" \/ Falsy(text.imageData) THEN Returns(NoImageData)
       ELSE Calls(generateContentRequest(client, base64Data(text.imageData[1].s)))

handlerStart_CallsFirst(client, e) ==
    LET text == BodyText(e)
    IN IF e.httpMethod # "POST" THEN Returns(MethodNotAllowed)
       ELSE IF text.json \in {"invalid", "null"}
       THEN Returns(CaughtError(Error(<<"SyntaxError: not valid JSON">>)))
       ELSE LET data == IF text.imageData = Null THEN <<>>
                        ELSE base64Data(text.imageData[1].s)
            IN Calls(generateContentRequest(client, data))

\* analyze-drawing.ts:15-57: the handler up to the call it awaits. JSON.parse
\* throws on a text that is no JSON, the destructuring throws on null, and
\* replace is no function of a value that is no string.
handlerStart(client, e) ==
    LET text == BodyText(e)
    IN IF e.httpMethod # "POST" THEN Returns(MethodNotAllowed)
       ELSE IF text.json = "invalid"
       THEN Returns(CaughtError(Error(<<"SyntaxError: not valid JSON">>)))
       ELSE IF text.json = "null"
       THEN Returns(CaughtError(Error(<<"TypeError: cannot destructure null">>)))
       ELSE IF Falsy(text.imageData) THEN Returns(NoImageData)
       ELSE IF text.imageData[1].type # "string"
       THEN Returns(CaughtError(Error(<<"TypeError: imageData.replace is not a function">>)))
       ELSE Calls(generateContentRequest(client, base64Data(text.imageData[1].s)))

\* text.includes(word)
Includes(text, word) == \E i \in 1..Len(text) : text[i] = word

\* analyze-drawing.ts:61, the predicate of find
IsImagePart(part) ==
    /\ part.inlineData # Null
    /\ part.inlineData[1].mimeType # Null
    /\ Includes(part.inlineData[1].mimeType[1], "image")
    /\ part.inlineData[1].data # Null
    /\ part.inlineData[1].data[1] # <<>>

\* part_002:58
candidates_part002(response) ==
    IF response.response # Null /\ response.response[1].candidates # Null
    THEN response.response[1].candidates[1]
    ELSE IF response.candidates # Null THEN response.candidates[1] ELSE <<>>

\* analyze-drawing.ts:59
candidates(response) ==
    IF response.candidates # Null THEN response.candidates[1] ELSE <<>>

\* analyze-drawing.ts:60-62: the first part of the first candidate that find
\* accepts
imagePart(cands) ==
    IF cands = <<>> THEN Null
    ELSE IF cands[1].content = Null THEN Null
    ELSE IF cands[1].content[1].parts = Null THEN Null
    ELSE LET parts == cands[1].content[1].parts[1]
             found == {i \in 1..Len(parts) : IsImagePart(parts[i])}
         IN IF found = {} THEN Null
            ELSE Some(parts[CHOOSE i \in found : \A j \in found : i <= j])

\* analyze-drawing.ts:74
EnhancedImageOf(part) ==
    <<"data:">> \o part.inlineData[1].mimeType[1] \o <<";base64,">>
        \o part.inlineData[1].data[1]

\* analyze-drawing.ts:59-86: the handler from the settling of the call on
handlerResume(version, outcome) ==
    IF outcome.rejected THEN CaughtError(outcome.thrown)
    ELSE LET cands == IF version = "part_002" THEN candidates_part002(outcome.value)
                      ELSE candidates(outcome.value)
             part == imagePart(cands)
         IN IF part = Null
            THEN CaughtError(Error(<<"No enhanced image returned from Gemini">>))
            ELSE HttpResponse(200, Some("application/json"), Null, Null,
                              Some(EnhancedImageOf(part[1])))

\* analyze-drawing.ts:1-13: the platform loads the module of the deployed
\* version, which builds the client from the key in the environment
ColdStart(version, key) ==
    /\ srvPc = "notLoaded"
    /\ deployed' = version
    /\ ai' = Some(GoogleGenAI(key))
    /\ srvPc' = "idle"
    /\ UNCHANGED <<clientVars, event, geminiCalls, geminiOutcome, result, invocations>>

\* analyze-drawing.ts:15-57: the platform invokes the handler, which returns
\* a response or awaits generateContent
Invoke(e) ==
    /\ srvPc = "idle"
    /\ LET step == handlerStart(ai[1], e)
       IN /\ event' = Some(e)
          /\ geminiOutcome' = Null
          /\ result' = step.returned
          /\ geminiCalls' = IF step.called = Null THEN <<>> ELSE <<step.called[1]>>
          /\ srvPc' = IF step.called = Null THEN "idle" ELSE "awaitGemini"
    /\ invocations' = invocations + 1
    /\ UNCHANGED <<clientVars, deployed, ai>>

\* analyze-drawing.ts:59-86: the call settles and the handler returns
GeminiSettles(outcome) ==
    /\ srvPc = "awaitGemini"
    /\ geminiOutcome' = Some(outcome)
    /\ result' = Some(handlerResume(deployed, outcome))
    /\ srvPc' = "idle"
    /\ UNCHANGED <<clientVars, deployed, ai, event, geminiCalls, invocations>>

----------------------------------------------------------------------------
(* The version of VideoCanvas whose router calls handleAnalyze itself:
   VideoCanvas.tsx:1-362 *)

\* VideoCanvas.tsx:160-163, up to the await
handleAnalyzeDirect(o, snapshot) ==
    [o EXCEPT !.isAnalysing = TRUE,
              !.pending = Append(@, snapshot),
              !.outbound = @ + 1]

\* VideoCanvas.tsx:130-150. closure is the render whose checkUiCollisions is
\* running: line 146 reads the isAnalysing of that render. st is [color,
\* brushSize, canvas, orch].
checkUiCollisionsDirect(closure, element, st) ==
    IF ~isDrawingRef THEN st
    ELSE LET s1 == IF element.dataColor # ""
                   THEN [st EXCEPT !.color = element.dataColor] ELSE st
             s2 == IF element.dataAction = "clear" THEN clearCanvas(s1) ELSE s1
         IN IF element.dataAction = "analyze" /\ ~closure.isAnalysing
            THEN [s2 EXCEPT !.orch = handleAnalyzeDirect(s2.orch, s2.canvas.segs)]
            ELSE s2

\* VideoCanvas.tsx:173-287, one iteration; closure is the render whose
\* predictWebcam is running
predictWebcamDirect(closure, video, hand, element, queue) ==
    IF ~mounted \/ ~handLandmarkerRef
    THEN \* 174: return, nothing scheduled
         /\ ev' = Ev("return")
         /\ scheduled' = queue
         /\ UNCHANGED <<appVars, cooldownRemaining, pending, outbound, sinceAccept,
                        isPinching, lastPoint, currentCursor, animationFrameId,
                        isDrawingRef, canvas, cursorCanvas, frames, runPoints,
                        runSegs, prevRun, approach>>
    ELSE IF VideoSkipped(video)
    THEN \* 184-195: skip and reschedule
         /\ animationFrameId' = Some(frames + 1)
         /\ scheduled' = queue \cup {frames + 1}
         /\ frames' = frames + 1
         /\ ev' = [Ev("skip") EXCEPT !.video = Some(video)]
         /\ UNCHANGED <<appVars, cooldownRemaining, pending, outbound, sinceAccept, isPinching,
                        lastPoint, currentCursor, isDrawingRef, canvas, cursorCanvas,
                        runPoints, runSegs, prevRun, approach>>
    ELSE LET \* 198-207
             resize == NeedsResize
             cv == IF resize THEN BlankCanvas(viewport.width, viewport.height)
                   ELSE canvas
             cc == IF resize THEN viewport ELSE cursorCanvas
             st0 == [color |-> color, brushSize |-> brushSize, canvas |-> cv,
                     orch |-> Orch]
             seen == [Ev("frame") EXCEPT !.sel = [color |-> color, brush |-> brushSize],
                                         !.video = Some(video),
                                         !.detected = TRUE, !.hand = hand]
         IN /\ animationFrameId' = Some(frames + 1)
            /\ scheduled' = queue \cup {frames + 1}
            /\ frames' = frames + 1
            /\ IF hand = NoHand
               THEN \* 280-284
                    /\ lastPoint' = Null
                    /\ isDrawingRef' = FALSE
                    /\ isPinching' = FALSE
                    /\ canvas' = cv
                    /\ cursorCanvas' = [width |-> cc.width, height |-> cc.height,
                                        glyph |-> Null]
                    /\ RunEnded("noHand")
                    /\ ev' = seen
                    /\ UNCHANGED <<appVars, cooldownRemaining, pending, outbound, sinceAccept,
                                   currentCursor, approach>>
               ELSE LET landmarks == hand[1]
                        pinch == isPinchingNow(landmarks)
                        p == SmoothedCursor(landmarks, cv)
                        \* 235-238
                        st1 == IF pinch THEN checkUiCollisionsDirect(closure, element, st0)
                               ELSE st0
                        \* 250-257
                        drawn == IF pinch /\ lastPoint # Null
                                 THEN <<Segment(closure, lastPoint[1], p)>> ELSE <<>>
                        tried == pinch /\ isDrawingRef /\ element.dataAction = "analyze"
                    IN /\ isPinching' = pinch
                       /\ currentCursor' = p
                       /\ approach' = Approached(landmarks, cv)
                       /\ color' = st1.color
                       /\ brushSize' = st1.brushSize
                       /\ SetOrch(st1.orch)
                       /\ canvas' = [st1.canvas EXCEPT !.segs = @ \o drawn]
                       /\ cursorCanvas' =
                              [width |-> cc.width, height |-> cc.height,
                               glyph |-> Some([kind |-> IF pinch THEN "active" ELSE "hover",
                                               at |-> p, color |-> closure.selectedColor])]
                       /\ lastPoint' = IF pinch THEN Some(p) ELSE Null
                       /\ isDrawingRef' = pinch
                       /\ IF pinch THEN RunExtended(p, drawn) ELSE RunEnded("release")
                       /\ ev' = [seen EXCEPT
                                   !.drawn = drawn,
                                   !.hit = IF pinch THEN Some(element) ELSE Null,
                                   !.trigger = IF ~tried THEN "none"
                                               ELSE IF st1.orch.outbound > outbound
                                               THEN "accepted" ELSE "rejected"]

\* the render whose predictWebcam runs: the effect of VideoCanvas.tsx:47-75
\* runs once, after the first render, its startCamera calls the predictWebcam
\* of that render (line 115), and line 286 requests the same function again.
\* loopProps holds the selection of that render and App.tsx:11 its isAnalysing.
FirstRender ==
    [selectedColor |-> loopProps.selectedColor, brushSize |-> loopProps.brushSize,
     isAnalysing |-> FALSE]

\* VideoCanvas.tsx:89-115: readyState >= 2 was observed; startCamera sets
\* hasCameraPermission and runs the first iteration
startCamera(video, hand) ==
    /\ setupPc = "awaitVideo"
    /\ hasCameraPermission' = (mounted \/ hasCameraPermission)
    /\ setupPc' = "cameraReady"
    /\ predictWebcamDirect(FirstRender, video, hand, NoElement, scheduled)
    /\ UNCHANGED <<isLoading, isDetectionInitialized, handLandmarkerRef, loopProps,
                   viewport, uncaught, serverVars, analysisResult, mounted>>

\* a requested callback runs (VideoCanvas.tsx:286)
AnimationFrameDirect(video, hand, element) ==
    /\ \E id \in scheduled :
          predictWebcamDirect(FirstRender, video, hand, element, scheduled \ {id})
    /\ UNCHANGED <<initVars, viewport, uncaught, serverVars, analysisResult>>

\* VideoCanvas.tsx:164-166: analyzeDrawing settles and handleAnalyze resumes;
\* when it rejects, lines 165 and 166 are not reached
AnalysisSettles(i, rejected) ==
    /\ i \in 1..Len(pending)
    /\ pending' = SubSeq(pending, 1, i - 1) \o SubSeq(pending, i + 1, Len(pending))
    /\ IF rejected \/ ~mounted
       THEN UNCHANGED <<analysisResult, isAnalysing>>
       ELSE /\ analysisResult' = Some("RESULT")
            /\ isAnalysing' = FALSE
    /\ uncaught' = (uncaught \/ rejected)
    /\ ev' = [Ev("response") EXCEPT !.outcome = IF rejected THEN "networkError" ELSE "image"]
    /\ UNCHANGED <<color, brushSize, enhancedImage, cooldownRemaining, initVars,
                   viewport, loopVars, serverVars, outbound, sinceAccept>>

----------------------------------------------------------------------------
(* The full system *)

\* a run holds at most MaxRequests accepted triggers; refused ones are not counted
RequestAllowed == outbound < MaxRequests \/ isButtonDisabled(Orch)

Start == \E video \in Videos, hand \in {NoHand, PinchA} : initializeHandDetection(video, hand)

Frame ==
    /\ frames < MaxSysFrames
    /\ \E video \in {VideoNotReady, VideoPlaying}, hand \in {NoHand, PinchA, HoverB},
          element \in Elements :
          /\ element = AnalyzeButton => RequestAllowed
          /\ AnimationFrame(video, hand, element)

Resize == \E v \in Viewports : WindowResized(v)

SelectColor == \E c \in COLORS : SelectColorClick(c)

SelectSize == \E n \in BRUSH_SIZES : SelectSizeClick(n)

Analyze == RequestAllowed /\ AnalyzeClick

Response == \E i \in 1..Len(pending), outcome \in Outcomes : FetchSettles(i, outcome)

\* the full system is explored over a short horizon of the cooldown
Tick ==
    /\ cooldownRemaining > ANALYZE_COOLDOWN_MS - MaxSysTicks * COOLDOWN_STEP_MS
    /\ CooldownTick

Next ==
    \/ DetectorCreated
    \/ DetectorFailed
    \/ CameraGranted
    \/ CameraDenied
    \/ VideoLoaded
    \/ Start
    \/ Frame
    \/ Resize
    \/ SelectColor
    \/ SelectSize
    \/ ClearClick
    \/ DismissImage
    \/ Analyze
    \/ Tick
    \/ Response
    \/ Unmount

Spec == Init /\ [][Next]_vars

----------------------------------------------------------------------------
(* The request orchestrator with both of its trigger sources: the hand stays
   pinched, over the enhance button or beside it *)

OrchStart == initializeHandDetection(VideoPlaying, PinchA)

OrchFrame ==
    /\ frames < MaxOrchFrames
    /\ \E element \in {NoElement, AnalyzeButton} :
          /\ element = AnalyzeButton => RequestAllowed
          /\ AnimationFrame(VideoPlaying, PinchA, element)

NextOrch ==
    \/ DetectorCreated
    \/ CameraGranted
    \/ VideoLoaded
    \/ OrchStart
    \/ OrchFrame
    \/ Analyze
    \/ CooldownTick
    \/ Response
    \/ DismissImage

SpecOrch == Init /\ [][NextOrch]_vars

----------------------------------------------------------------------------
(* The stroke tracker over long sequences of frames *)

StrokeStart == \E hand \in {NoHand, PinchA, PinchB, HoverB} : initializeHandDetection(VideoPlaying, hand)

StrokeFrame ==
    /\ frames < MaxFrames
    /\ \E hand \in {NoHand, PinchA, PinchB, HoverB} :
          AnimationFrame(VideoPlaying, hand, NoElement)

NextStroke ==
    \/ DetectorCreated
    \/ CameraGranted
    \/ VideoLoaded
    \/ StrokeStart
    \/ StrokeFrame

SpecStroke == Init /\ [][NextStroke]_vars

----------------------------------------------------------------------------
(* The hit-test router: the hand pinches or hovers over any element of the
   toolbar *)

HitStart == \E hand \in {NoHand, PinchA} : initializeHandDetection(VideoPlaying, hand)

HitFrame ==
    /\ frames < MaxHitFrames
    /\ \E hand \in {PinchA, HoverB}, element \in Elements :
          /\ element = AnalyzeButton => RequestAllowed
          /\ AnimationFrame(VideoPlaying, hand, element)

NextHit ==
    \/ DetectorCreated
    \/ CameraGranted
    \/ VideoLoaded
    \/ HitStart
    \/ HitFrame
    \/ Response

SpecHit == Init /\ [][NextHit]_vars

----------------------------------------------------------------------------
(* The pinch classifier over hands around the threshold *)

PinchStart == \E hand \in PinchProbes : initializeHandDetection(VideoPlaying, hand)

PinchFrame ==
    /\ frames < MaxPinchFrames
    /\ \E hand \in PinchProbes \cup {NoHand} :
          AnimationFrame(VideoPlaying, hand, NoElement)

NextPinch ==
    \/ DetectorCreated
    \/ CameraGranted
    \/ VideoLoaded
    \/ PinchStart
    \/ PinchFrame

SpecPinch == Init /\ [][NextPinch]_vars

----------------------------------------------------------------------------
(* The drawing surface: frames of every kind, with the video ready or not,
   between resizes of the window, selections, clears and one enhancement *)

CanvasStart ==
    \E video \in Videos, hand \in {NoHand, PinchA} : initializeHandDetection(video, hand)

CanvasFrame ==
    /\ frames < MaxCanvasFrames
    /\ \E video \in Videos, hand \in {NoHand, PinchA, HoverB},
          element \in {NoElement, ClearButton, ColorSwatch("#ff00ff")} :
          AnimationFrame(video, hand, element)

CanvasAnalyze == outbound = 0 /\ AnalyzeClick

CanvasResponse == \E outcome \in {"image", "networkError"} : FetchSettles(1, outcome)

NextCanvas ==
    \/ DetectorCreated
    \/ CameraGranted
    \/ VideoLoaded
    \/ CanvasStart
    \/ CanvasFrame
    \/ Resize
    \/ SelectSize
    \/ ClearClick
    \/ CanvasAnalyze
    \/ CanvasResponse

SpecCanvas == Init /\ [][NextCanvas]_vars

----------------------------------------------------------------------------
(* The lifecycle: initialization with its failures, the start of the loop,
   frames, and the teardown at any point *)

LifeFrame ==
    /\ frames < MaxLifeFrames
    /\ \E video \in Videos, hand \in {NoHand, PinchA, HoverB},
          element \in {NoElement, ClearButton} :
          AnimationFrame(video, hand, element)

NextLife ==
    \/ DetectorCreated
    \/ DetectorFailed
    \/ CameraGranted
    \/ CameraDenied
    \/ VideoLoaded
    \/ Start
    \/ LifeFrame
    \/ SelectColor
    \/ Unmount

SpecLife == Init /\ [][NextLife]_vars

----------------------------------------------------------------------------
(* The client with every kind of step: frames over every control of the
   toolbar, selections, clears and triggers by click, the first ticks of the
   cooldown, and responses *)

ClientFrame ==
    /\ frames < MaxClientFrames
    /\ \E hand \in {NoHand, PinchA},
          element \in {NoElement, AnalyzeButton, ClearButton, ColorSwatch("#ff00ff"),
                       SizeButton(12)} :
          /\ element = AnalyzeButton => RequestAllowed
          /\ AnimationFrame(VideoPlaying, hand, element)

ClientResponse ==
    \E outcome \in {"image", "noImageField", "networkError"} : FetchSettles(1, outcome)

NextClient ==
    \/ DetectorCreated
    \/ CameraGranted
    \/ VideoLoaded
    \/ OrchStart
    \/ ClientFrame
    \/ SelectColor
    \/ SelectSize
    \/ ClearClick
    \/ Analyze
    \/ Tick
    \/ ClientResponse

SpecClient == Init /\ [][NextClient]_vars

----------------------------------------------------------------------------
(* The analyze-drawing function, invoked with any event, also the ones the
   browser sends *)

Load == \E version \in Versions, key \in Keys : ColdStart(version, key)

Serve ==
    /\ invocations < MaxInvocations
    /\ \E e \in Events \cup {enhanceDrawingRequest(PngUrl)} : Invoke(e)

Settle ==
    /\ srvPc = "awaitGemini"
    /\ \E outcome \in GeminiOutcomes(ai[1]) : GeminiSettles(outcome)

NextHandler ==
    \/ Load
    \/ Serve
    \/ Settle

SpecHandler == Init /\ [][NextHandler]_vars

----------------------------------------------------------------------------
(* The version whose router calls handleAnalyze itself, with a hand that
   pinches, hovers or leaves, over the analyze control, the clear control, a
   colour or nothing *)

DirectStart == \E hand \in {NoHand, PinchA} : startCamera(VideoPlaying, hand)

DirectFrame ==
    /\ frames < MaxDirectFrames
    /\ \E hand \in {NoHand, PinchA, HoverB},
          element \in {NoElement, AnalyzeButton, ClearButton, ColorSwatch("#ff00ff")} :
          /\ element = AnalyzeButton => outbound < MaxRequests
          /\ AnimationFrameDirect(VideoPlaying, hand, element)

DirectResponse == \E i \in 1..Len(pending), rejected \in BOOLEAN : AnalysisSettles(i, rejected)

NextDirect ==
    \/ DetectorCreated
    \/ CameraGranted
    \/ DirectStart
    \/ DirectFrame
    \/ DirectResponse

SpecDirect == Init /\ [][NextDirect]_vars

\* the fetch is assumed to settle
SpecOrchFair == SpecOrch /\ WF_vars(Response)

\* the fetch is assumed to settle, and the interval of the cooldown fires
\* while it exists
SpecOrchLive == SpecOrch /\ WF_vars(Response) /\ WF_vars(CooldownTick)

----------------------------------------------------------------------------
(* Properties of the request orchestrator *)

\* a step in which the enhance action was triggered, by click or by hit-test
TriggerStep == ev'.trigger # "none"
\* a step in which a response was delivered
ResponseStep == Len(pending') < Len(pending)

\* C1: in every reachable state, whatever the interleaving of clicks on the
\* enhance button, pinches over it, frames, timer ticks and responses, at
\* most one enhancement request is in flight.
C1_AtMostOneInFlight == Len(pending) <= 1

\* the second request is in flight and a pinch over the button was refused
C1_Witness ==
    /\ Len(pending) = 1
    /\ outbound = 2
    /\ ev.op = "frame"
    /\ ev.trigger = "rejected"

\* C2: a trigger is accepted (the surface is snapshotted, one request goes
\* out, isAnalysing becomes true) if and only if isAnalysing is false and
\* cooldownRemaining is 0 at the moment of the trigger.
C2_AcceptedIffIdle ==
    [][TriggerStep =>
        /\ (ev'.trigger = "accepted") <=> (~isAnalysing /\ cooldownRemaining = 0)
        /\ ev'.trigger = "accepted" =>
              /\ pending' = Append(pending, canvas.segs)
              /\ outbound' = outbound + 1
              /\ isAnalysing'
        /\ ev'.trigger = "rejected" =>
              /\ pending' = pending
              /\ outbound' = outbound]_vars

\* a pinch over the button was accepted once the first cycle was over
C2_Witness ==
    /\ ev.op = "frame"
    /\ ev.trigger = "accepted"
    /\ outbound = 2
    /\ isAnalysing
    /\ Len(pending) = 1

\* C3: a trigger received while a request is in flight or the cooldown has
\* not expired changes nothing (no request, cooldown not restarted,
\* isAnalysing and the result unchanged), and a request is only ever issued
\* by a trigger that finds the orchestrator idle: nothing is queued.
C3_RejectedTriggerNoEffect ==
    [][/\ (TriggerStep /\ (isAnalysing \/ cooldownRemaining > 0)) =>
             UNCHANGED <<isAnalysing, cooldownRemaining, enhancedImage, pending,
                         outbound>>
       /\ outbound' # outbound =>
             TriggerStep /\ ~isAnalysing /\ cooldownRemaining = 0]_vars

\* a second click 200 ms after the accepted one: still one outbound call
C3_Witness ==
    /\ ev.op = "click"
    /\ ev.trigger = "rejected"
    /\ outbound = 1
    /\ sinceAccept = 2 * COOLDOWN_STEP_MS
    /\ cooldownRemaining = ANALYZE_COOLDOWN_MS - 2 * COOLDOWN_STEP_MS

RateLimitView(o) == <<o.isAnalysing, o.cooldownRemaining, Len(o.pending), o.outbound>>

\* C5: from any state with a request in flight, a failed call and a
\* successful one leave the same isAnalysing and cooldownRemaining, and the
\* next trigger is treated alike after either.
C5_FailureConsumesWindow ==
    \A i \in 1..Len(pending) : \A outcome \in Outcomes :
        LET ok == handleAnalyzeResume(Orch, i, enhanceDrawing("image"))
            ko == handleAnalyzeResume(Orch, i, enhanceDrawing(outcome))
        IN /\ RateLimitView(ko) = RateLimitView(ok)
           /\ RateLimitView(handleAnalyzeClick(ko, canvas.segs))
                = RateLimitView(handleAnalyzeClick(ok, canvas.segs))

\* a call failed at the network level while the cooldown was running
C5_Witness ==
    /\ ev.op = "response"
    /\ ev.outcome = "networkError"
    /\ ~isAnalysing
    /\ cooldownRemaining > 0
    /\ cooldownRemaining < ANALYZE_COOLDOWN_MS

\* C6: provided the fetch settles, every accepted request is eventually
\* followed by isAnalysing = false, whatever the outcome of the call.
C6_NeverStuckInFlight == isAnalysing ~> ~isAnalysing

\* a non-OK status ended the second request
C6_Witness ==
    /\ ev.op = "response"
    /\ ev.outcome = "httpError"
    /\ ~isAnalysing
    /\ outbound = 2

\* C7: enhanceDrawing never rejects; on a network error, a non-OK status,
\* an unreadable body or a body without enhancedImage it resolves to the
\* empty string, which handleAnalyze shows as no result (null), and no
\* error escapes.
C7_FailuresBecomeAbsentResult ==
    /\ ~uncaught
    /\ \A outcome \in Outcomes :
          /\ ~enhanceDrawing(outcome).rejected
          /\ outcome # "image" => enhanceDrawing(outcome).value = ""
    /\ (ev.op = "response" /\ ev.outcome # "image") =>
          enhancedImage = Null /\ ~isAnalysing

\* a body without an image came back
C7_Witness ==
    /\ ev.op = "response"
    /\ ev.outcome = "noImageField"
    /\ enhancedImage = Null
    /\ ~uncaught

\* C30: cooldownRemaining is a multiple of 100 from 0 to 10000; it changes
\* only by an accepted trigger, which finds it 0 and sets it to 10000, and by
\* a tick of the timer, which takes 100 off it; and a trigger is accepted
\* only where it is 0.
C30_CooldownCountsDown ==
    /\ [](\E k \in 0..100 : cooldownRemaining = 100 * k)
    /\ [][/\ cooldownRemaining' # cooldownRemaining =>
                \/ /\ ev'.trigger = "accepted"
                   /\ cooldownRemaining = 0
                   /\ cooldownRemaining' = 10000
                \/ /\ ev'.op = "tick"
                   /\ cooldownRemaining' = cooldownRemaining - 100
          /\ ev'.trigger = "accepted" =>
                cooldownRemaining = 0 /\ cooldownRemaining' = 10000
          /\ (TriggerStep /\ cooldownRemaining # 0) => ev'.trigger = "rejected"]_vars

\* the hundredth tick after the first acceptance took the cooldown to 0, and
\* a second trigger was accepted there
C30_Witness ==
    /\ outbound = 2
    /\ ev.trigger = "accepted"
    /\ cooldownRemaining = 10000
    /\ sinceAccept = 0

\* C31: what is left of the cooldown and the ticks since the acceptance add
\* up to 10000 ms, so the cooldown is over at the hundredth tick and not
\* before; provided the fetch settles and the interval fires, a button that
\* is disabled becomes enabled again, and a trigger that finds it enabled is
\* accepted.
C31_ReturnsToIdle ==
    /\ [](outbound > 0 => cooldownRemaining + sinceAccept = 100 * COOLDOWN_STEP_MS)
    /\ isButtonDisabled(Orch) ~> (~isAnalysing /\ cooldownRemaining = 0)
    /\ [][(TriggerStep /\ ~isAnalysing /\ cooldownRemaining = 0) =>
             ev'.trigger = "accepted"]_vars

\* the hundredth tick after the first acceptance ended the cooldown, the
\* response having arrived
C31_Witness ==
    /\ ev.op = "tick"
    /\ outbound = 1
    /\ sinceAccept = 100 * COOLDOWN_STEP_MS
    /\ cooldownRemaining = 0
    /\ ~isAnalysing

\* C32: a frame of a held pinch over the enhance button does to the
\* orchestrator what a click on the button would do in the same state: it
\* issues one request, and disables the button, when the button is enabled,
\* and changes nothing when a request is in flight or the cooldown runs; so
\* the frames that follow an accepted one are refused until the orchestrator
\* is idle again.  The router runs before the frame's segment is drawn, so
\* the image it submits is the surface the frame found.
C32_HeldPinchIsOneClickPerFrame ==
    [][(/\ ev'.op = "frame"
        /\ ev'.hit = Some(AnalyzeButton)
        /\ isDrawingRef) =>
          LET surface == IF canvas.width # viewport.width \/ canvas.height # viewport.height
                         THEN <<>> ELSE canvas.segs
              clicked == handleAnalyzeClick(Orch, surface)
          IN /\ isAnalysing' = clicked.isAnalysing
             /\ cooldownRemaining' = clicked.cooldownRemaining
             /\ pending' = clicked.pending
             /\ outbound' = clicked.outbound
             /\ enhancedImage' = clicked.enhancedImage
             /\ (~isAnalysing /\ cooldownRemaining = 0) =>
                   /\ outbound' = outbound + 1
                   /\ ev'.trigger = "accepted"
                   /\ isAnalysing' /\ cooldownRemaining' = ANALYZE_COOLDOWN_MS
             /\ (isAnalysing \/ cooldownRemaining > 0) =>
                   /\ ev'.trigger = "rejected"
                   /\ UNCHANGED <<isAnalysing, cooldownRemaining, pending, outbound,
                                  enhancedImage>>]_vars

\* the pinch stayed over the button: the frame after the accepted one was
\* refused, the second request being in flight
C32_Witness ==
    /\ ev.op = "frame"
    /\ ev.hit = Some(AnalyzeButton)
    /\ ev.trigger = "rejected"
    /\ frames = 3
    /\ outbound = 2
    /\ sinceAccept = 0
    /\ isAnalysing
    /\ Len(pending) = 1

----------------------------------------------------------------------------
(* Properties of the stroke tracker *)

\* C8: a run of n consecutive processed frames that pinch with a hand has
\* produced n-1 segments, the i-th from the i-th to the (i+1)-th point of the
\* run, so that none starts at a point of an earlier run.
C8_RunSegments ==
    /\ Len(runSegs) = (IF runPoints = <<>> THEN 0 ELSE Len(runPoints) - 1)
    /\ \A i \in 1..Len(runSegs) :
          /\ runSegs[i].from = runPoints[i]
          /\ runSegs[i].to = runPoints[i + 1]
    /\ prevRun.points > 0 => prevRun.segs = prevRun.points - 1

\* 5 pinching frames, 1 frame without a hand, 3 pinching frames: 4 segments,
\* then 2 segments
C8_Witness ==
    /\ frames = 9
    /\ prevRun = [points |-> 5, segs |-> 4, endedBy |-> "noHand"]
    /\ Len(runPoints) = 3
    /\ Len(runSegs) = 2

\* C9: at every frame boundary lastPoint is defined only if the last
\* processed frame had a hand and pinched, and then it is that frame's
\* display point.
C9_LastPointFromLastFrame ==
    lastPoint # Null =>
        /\ runPoints # <<>>
        /\ lastPoint[1] = runPoints[Len(runPoints)]
        /\ lastPoint[1] = currentCursor

\* a second run has begun after a released pinch
C9_Witness ==
    /\ lastPoint # Null
    /\ Len(runPoints) = 1
    /\ prevRun.points >= 2
    /\ prevRun.endedBy = "release"

\* C10: a segment drawn by a frame that found a color and a brush width
\* selected, and left them selected, is drawn with that color and that width:
\* a selection made while the loop is running is used by the frames after it.
C10_SegmentUsesSelection ==
    (/\ ev.op = "frame"
     /\ ev.drawn # <<>>
     /\ color = ev.sel.color
     /\ brushSize = ev.sel.brush) =>
        /\ ev.drawn[1].color = color
        /\ ev.drawn[1].width = brushSize

----------------------------------------------------------------------------
(* Properties of the hit-test router *)

\* a step that is a processed frame
FrameStep == ev'.op = "frame"
\* what the router does for the markers of element e when it acts
RouterActed(e) ==
    /\ color' = (IF e.dataColor # "" THEN e.dataColor ELSE color)
    /\ ToDecimal(brushSize') = (IF e.dataSize # <<>> THEN e.dataSize
                                ELSE ToDecimal(brushSize))
    /\ e.dataAction = "clear" => canvas'.segs = ev'.drawn /\ enhancedImage' = Null
    /\ e.dataAction = "analyze" =>
          /\ ev'.trigger # "none"
          /\ outbound' = outbound + (IF ~isAnalysing /\ cooldownRemaining = 0
                                     THEN 1 ELSE 0)
    /\ e.dataAction # "analyze" => outbound' = outbound

\* C11, as claimed: on every processed frame classified as pinching, the
\* first of a gesture included, the router is invoked and performs the action
\* of each marker of the element under the cursor, once.
C11_RouterActsOnEveryPinchingFrame ==
    [][FrameStep =>
        /\ (ev'.hit # Null) <=> isPinching'
        /\ ev'.hit # Null => RouterActed(ev'.hit[1])]_vars

\* C11, amended: the router is invoked on every processed pinching frame, and
\* acts when the processed frame before it was pinching too (isDrawingRef):
\* then it performs the action of each marker once, frame after frame; on the
\* first pinching frame of a gesture it changes nothing.
C11_RouterActsOnHeldPinch ==
    [][FrameStep =>
        /\ (ev'.hit # Null) <=> isPinching'
        /\ (ev'.hit # Null /\ isDrawingRef) => RouterActed(ev'.hit[1])
        /\ (ev'.hit # Null /\ ~isDrawingRef) =>
              /\ UNCHANGED <<color, brushSize, enhancedImage, isAnalysing,
                             cooldownRemaining, pending, outbound>>
              /\ ev'.trigger = "none"
              /\ ev'.drawn = <<>>
              /\ canvas'.segs = (IF canvas.width = viewport.width
                                    /\ canvas.height = viewport.height
                                 THEN canvas.segs ELSE <<>>)]_vars

\* a pinch held over the clear button for a third frame: the two segments of
\* the run are gone but the one drawn after the clear
C11_Witness ==
    /\ ev.op = "frame"
    /\ ev.hit = Some(ClearButton)
    /\ Len(runSegs) = 2
    /\ canvas.segs = ev.drawn
    /\ Len(ev.drawn) = 1

----------------------------------------------------------------------------
(* Properties of the pinch classifier and of the smoothing *)

C13_GeometricApproach ==
    approach.n > 0 =>
        LET t == approach.target[1]
            o == approach.offset0
            d == 5 ^ approach.n
            k == 4 ^ approach.n
        IN /\ o.x % d = 0
           /\ o.y % d = 0
           /\ t.x - currentCursor.x = (o.x \div d) * k
           /\ t.y - currentCursor.y = (o.y \div d) * k
           /\ o.x # 0 => currentCursor.x # t.x
           /\ o.y # 0 => currentCursor.y # t.y

\* the target jumped, and four frames later the cursor is still on its way
C13_Witness ==
    /\ approach.n = 4
    /\ frames = 9
    /\ approach.offset0.x # 0
    /\ approach.offset0.x # approach.target[1].x
    /\ currentCursor.x # approach.target[1].x

----------------------------------------------------------------------------
(* Properties of the frame loop and of the drawing surface *)

\* C14: an iteration that finds the video with readyState < 2, or with width
\* or height 0, runs no detection, draws nothing, leaves lastPoint, the
\* cursor, the pinch indicator, the selection and both surfaces as they were,
\* and requests one callback, which is the only one requested then.
C14_SkippedFrameChangesNothing ==
    [][(/\ ev'.video # Null
        /\ \/ ev'.video[1].readyState < 2
           \/ ev'.video[1].videoWidth = 0
           \/ ev'.video[1].videoHeight = 0) =>
          /\ ~ev'.detected
          /\ ev'.drawn = Null
          /\ ev'.hit = Null
          /\ UNCHANGED <<lastPoint, currentCursor, isPinching, isDrawingRef, canvas,
                         cursorCanvas, color, brushSize, enhancedImage, isAnalysing,
                         pending, outbound>>
          /\ Cardinality(scheduled') = 1
          /\ scheduled' \cap scheduled = {}
          /\ animationFrameId' # Null
          /\ animationFrameId'[1] \in scheduled']_vars

\* an iteration was skipped, the video having a frame but no size, after a
\* segment was drawn: the segment and lastPoint are still there
C14_Witness ==
    /\ ev.op = "skip"
    /\ ev.video = Some(VideoNoSize)
    /\ frames = 3
    /\ Len(runPoints) = 2
    /\ Len(canvas.segs) = 1
    /\ lastPoint = Some(runPoints[2])
    /\ Cardinality(scheduled) = 1

\* a step that is an iteration of predictWebcam
IterationStep == ev'.op \in {"return", "skip", "frame"}

\* C15: at most one callback is requested at any time; an iteration that is
\* not the run of a requested callback (a start of the loop) happens only
\* when none has run before and none is requested; and an iteration that runs
\* a requested callback leaves one requested, its successor.
C15_OneContinuation ==
    [][/\ Cardinality(scheduled') <= 1
       /\ (IterationStep /\ scheduled \subseteq scheduled') =>
             frames = 0 /\ scheduled = {}
       /\ (IterationStep /\ ev'.op # "return") =>
             /\ scheduled' = {frames'}
             /\ frames' = frames + 1
             /\ animationFrameId' = Some(frames')]_vars

\* the third iteration has run and requested the fourth
C15_Witness ==
    /\ frames = 3
    /\ scheduled = {3}
    /\ animationFrameId = Some(3)
    /\ isDetectionInitialized

\* C16: the teardown cancels the requested callback; after it no iteration
\* runs the detector or draws, at whatever point of the initialization or of
\* the loop it happened; and a requested callback leaves the list only by
\* running or by the teardown.
C16_TeardownStopsLoop ==
    [][/\ ev'.op = "unmount" => scheduled' = {}
       /\ ~mounted =>
             /\ ~ev'.detected
             /\ UNCHANGED <<canvas, cursorCanvas, frames, scheduled>>
       /\ (scheduled' # scheduled /\ ~IterationStep) => ev'.op = "unmount"]_vars

\* torn down while the callback requested by the second iteration was waiting
C16_Witness ==
    /\ ~mounted
    /\ ev.op = "unmount"
    /\ frames = 2
    /\ animationFrameId = Some(2)
    /\ scheduled = {}

\* C17: an iteration runs only when the detector has been built and the video
\* has reported frame data (startCamera is past its wait), and only after
\* Start Hand Detection was pressed, which is offered only when isLoading is
\* false, hasCameraPermission is true and isDetectionInitialized is false;
\* isDetectionInitialized never returns to false.
C17_LoopStartsWhenReady ==
    [][/\ IterationStep =>
             /\ handLandmarkerRef
             /\ setupPc = "cameraReady"
             /\ ~isLoading
             /\ hasCameraPermission
             /\ isDetectionInitialized'
             /\ ~isDetectionInitialized => frames = 0
       /\ isDetectionInitialized => isDetectionInitialized']_vars

\* the first iteration ran, and found a hand
C17_Witness ==
    /\ frames = 1
    /\ ev.op = "frame"
    /\ ev.hand = PinchA
    /\ isDetectionInitialized
    /\ setupPc = "cameraReady"

\* C18: once isLoading is false and hasCameraPermission is false (Camera
\* Access Denied is rendered), hasCameraPermission stays false and the loop
\* is never started.
C18_PermissionDeniedTerminal ==
    [][(~isLoading /\ ~hasCameraPermission) =>
          /\ ~hasCameraPermission'
          /\ ~isDetectionInitialized']_vars

\* C19: once the construction of the detector has failed (loading is over
\* and there is no detector), it is not retried, the camera is never
\* requested, hasCameraPermission stays false and no iteration of the loop
\* ever runs.
C19_DetectorFailureIsFinal ==
    [][(~isLoading /\ ~handLandmarkerRef) =>
          /\ setupPc = "failed"
          /\ setupPc' = "failed"
          /\ ~handLandmarkerRef'
          /\ ~hasCameraPermission'
          /\ ~isDetectionInitialized'
          /\ ~IterationStep
          /\ frames' = 0
          /\ scheduled' = {}]_vars

\* the construction failed, and the toolbar was used afterwards
C19_Witness ==
    /\ setupPc = "failed"
    /\ ~isLoading
    /\ ev.op = "select"
    /\ color = "#ff00ff"
    /\ frames = 0

C21_ClearKeepsLastPoint ==
    [][(/\ FrameStep
        /\ ev'.hit = Some(ClearButton)
        /\ isDrawingRef
        /\ lastPoint # Null) =>
          /\ ev'.drawn = <<Segment(loopProps, lastPoint[1], currentCursor')>>
          /\ canvas'.segs = ev'.drawn
          /\ lastPoint' = Some(currentCursor')]_vars

\* the third frame of a held pinch was over the clear control: of the two
\* segments of the run the surface holds the second, from the pre-clear point
C21_Witness ==
    /\ ev.op = "frame"
    /\ ev.hit = Some(ClearButton)
    /\ Len(runPoints) = 3
    /\ Len(runSegs) = 2
    /\ canvas.segs = <<runSegs[2]>>
    /\ runSegs[2].from = runPoints[2]

\* C22: a click on the clear control of the toolbar leaves the drawing surface
\* empty and no enhanced image displayed, as a clear of the router does.
C22_ClearClickClearsSurface ==
    [][ev'.op = "clearClick" =>
          /\ canvas'.segs = <<>>
          /\ enhancedImage' = Null]_vars

----------------------------------------------------------------------------
(* Properties of the whole client *)

\* C27: an enhancement request is issued by a step exactly when the step is a
\* trigger of the enhance action, by click or by hit-test, that finds the
\* orchestrator idle; it is then the one request of the step and carries the
\* surface as it is. So the requests issued are as many as the accepted
\* triggers, and a frame without a trigger, a selection, a clear, a tick of
\* the cooldown, a response or any other step issues none.
C27_RequestsOnlyFromAcceptedTriggers ==
    [][/\ outbound' = outbound
                      + (IF TriggerStep /\ ~isAnalysing /\ cooldownRemaining = 0
                         THEN 1 ELSE 0)
       /\ outbound' = outbound + 1 =>
             /\ ev'.op \in {"click", "frame"}
             /\ \E snapshot \in {canvas.segs, <<>>} : pending' = Append(pending, snapshot)
       /\ outbound' = outbound =>
             \/ pending' = pending
             \/ ev'.op = "response" /\ Len(pending') = Len(pending) - 1]_vars

\* after a selection by click, a pinch held over the button issued the one
\* request, with the surface as it was before the segment of that frame
C27_Witness ==
    /\ outbound = 1
    /\ ev.op = "frame"
    /\ ev.trigger = "accepted"
    /\ pending = <<<<>>>>
    /\ Len(canvas.segs) = 1
    /\ color # DefaultColor

----------------------------------------------------------------------------
(* Properties of the analyze-drawing function *)

\* the event served last was a POST whose imageData is this text
PostOf(text) ==
    /\ event # Null
    /\ event[1].httpMethod = "POST"
    /\ event[1].body = Some(ObjectText(Some(JsonString(text))))

\* these candidates have, in the first of them, a part with inline data of an
\* image type
FirstCarriesImage(cands) ==
    /\ cands # <<>>
    /\ cands[1].content # Null
    /\ cands[1].content[1].parts # Null
    /\ \E i \in 1..Len(cands[1].content[1].parts[1]) :
          LET part == cands[1].content[1].parts[1][i]
          IN /\ part.inlineData # Null
             /\ part.inlineData[1].mimeType \in {Some(<<"image", "/png">>),
                                                 Some(<<"image", "/jpeg">>)}
             /\ part.inlineData[1].data \notin {Null, Some(<<>>)}

\* the result of Gemini carries no image, at the top or under response
NoImageReturned(r) ==
    /\ r.candidates # Null => ~FirstCarriesImage(r.candidates[1])
    /\ (r.response # Null /\ r.response[1].candidates # Null)
          => ~FirstCarriesImage(r.response[1].candidates[1])

\* C23: an event whose method is not POST is answered 405 without a call to
\* Gemini, whatever its body.
C23_NonPostIs405 ==
    (event # Null /\ event[1].httpMethod # "POST") =>
        /\ srvPc = "idle"
        /\ result # Null
        /\ result[1].statusCode = 405
        /\ geminiCalls = <<>>
        /\ geminiOutcome = Null

\* a PUT whose body is no JSON, and a GET with an image, were answered 405
C23_Witness ==
    /\ event # Null
    /\ \/ event[1] = [httpMethod |-> "PUT", body |-> Some(InvalidText)]
       \/ event[1] = [httpMethod |-> "GET",
                      body |-> Some(ObjectText(Some(JsonString(PngUrl))))]
    /\ result = Some(MethodNotAllowed)
    /\ invocations = 2

\* C24: a POST with no body, with an empty body, with the empty object, or
\* with an imageData that is empty or null is answered 400 with the error
\* No image data provided, without a call to Gemini.
C24_MissingImageIs400 ==
    (/\ event # Null
     /\ event[1].httpMethod = "POST"
     /\ event[1].body \in {Null, Some(EmptyText), Some(ObjectText(Null)),
                           Some(ObjectText(Some(JsonString(<<>>)))),
                           Some(ObjectText(Some(JsonNull)))}) =>
        /\ srvPc = "idle"
        /\ result # Null
        /\ result[1].statusCode = 400
        /\ result[1].body.error = Some("No image data provided")
        /\ result[1].body.enhancedImage = Null
        /\ geminiCalls = <<>>
        /\ geminiOutcome = Null

\* a POST with the empty imageData was answered 400 by the function whose key
\* Gemini accepts
C24_Witness ==
    /\ PostOf(<<>>)
    /\ result = Some(NoImageData)
    /\ KeyAccepted(ai[1].apiKey)
    /\ geminiCalls = <<>>

\* C25: a POST with imageData, to which Gemini answers with an image part in
\* the first candidate under the response member of its result, has made one
\* call to Gemini (the model gemini-2.5-flash-image, a text part, then the
\* image data without its data:image/png or data:image/jpeg prefix, and the
\* response modalities [IMAGE]) and is answered 200 with the data URL of the
\* returned part.
C25_ImageIs200 ==
    (/\ geminiOutcome # Null
     /\ ~geminiOutcome[1].rejected
     /\ geminiOutcome[1].value \in {UnderResponse(c) : c \in WithImage}) =>
        /\ Len(geminiCalls) = 1
        /\ geminiCalls[1].model = "gemini-2.5-flash-image"
        /\ Len(geminiCalls[1].parts) = 2
        /\ geminiCalls[1].parts[1].text # Null
        /\ geminiCalls[1].parts[2].inlineData # Null
        /\ \/ PostOf(PngUrl) /\ geminiCalls[1].parts[2].inlineData[1].data = <<"PNG-DATA">>
           \/ PostOf(JpegUrl) /\ geminiCalls[1].parts[2].inlineData[1].data = <<"JPEG-DATA">>
           \/ PostOf(GifUrl) /\ geminiCalls[1].parts[2].inlineData[1].data = GifUrl
           \/ PostOf(BareData) /\ geminiCalls[1].parts[2].inlineData[1].data = BareData
           \/ PostOf(PngUrlOfPngUrl)
              /\ geminiCalls[1].parts[2].inlineData[1].data = Tail(PngUrlOfPngUrl)
        /\ geminiCalls[1].responseModalities = <<"IMAGE">>
        /\ result # Null
        /\ result[1].statusCode = 200
        /\ result[1].body.enhancedImage \in
              {Some(<<"data:", "image", "/png", ";base64,", "ENHANCED">>),
               Some(<<"data:", "image", "/jpeg", ";base64,", "ENHANCED-2">>)}

\* C26: a POST with imageData, to which Gemini answers without an image part
\* or by throwing, is answered 500 with the error Failed to enhance drawing.
C26_NoImageIs500 ==
    (/\ geminiOutcome # Null
     /\ \/ geminiOutcome[1].rejected
        \/ NoImageReturned(geminiOutcome[1].value)) =>
        /\ result # Null
        /\ result[1].statusCode = 500
        /\ result[1].body.error = Some("Failed to enhance drawing")
        /\ result[1].body.enhancedImage = Null

\* Gemini answered with a candidate whose only part is text, and the second
\* invocation was answered 500
C26_Witness ==
    /\ PostOf(PngUrl)
    /\ geminiOutcome = Some(GeminiResolves(AtTop(<<Candidate(<<TextPart>>)>>)))
    /\ result = Some(CaughtError(Error(<<"No enhanced image returned from Gemini">>)))
    /\ invocations = 2

\* the body of a response holds this key
Mentions(body, key) ==
    \/ body.error = Some(key)
    \/ body.message # Null /\ Includes(body.message[1], key)
    \/ body.enhancedImage # Null /\ Includes(body.enhancedImage[1], key)

\* C28 as stated: a response holds no key and tells nothing of the key of
\* the function, that is, the function could have given it with any key.
C28_ResponseIndependentOfKey ==
    (srvPc = "idle" /\ result # Null) =>
        /\ \A key \in Keys : ~Mentions(result[1].body, key)
        /\ \A key \in Keys :
              IF geminiOutcome = Null
              THEN handlerStart(GoogleGenAI(key), event[1]).returned = result
              ELSE \E outcome \in GeminiOutcomes(GoogleGenAI(key)) :
                      handlerResume(deployed, outcome) = result[1]

\* C28, amended: no response holds the key; a response given without a call
\* to Gemini is the one the function gives with any key; the key is in the
\* call to Gemini, and a response given after the call is 500 when the key is
\* one Gemini refuses.
C28_KeyReachesGeminiOnly ==
    (srvPc = "idle" /\ result # Null) =>
        /\ \A key \in Keys : ~Mentions(result[1].body, key)
        /\ geminiOutcome = Null =>
              /\ geminiCalls = <<>>
              /\ \A key \in Keys :
                    handlerStart(GoogleGenAI(key), event[1]).returned = result
        /\ geminiOutcome # Null =>
              /\ Len(geminiCalls) = 1
              /\ geminiCalls[1].apiKey = ai[1].apiKey
              /\ ~KeyAccepted(ai[1].apiKey) => result[1].statusCode = 500

\* the request of the browser was answered 500 with the message of Gemini's
\* refusal of the key
C28_Witness ==
    /\ event = Some(enhanceDrawingRequest(PngUrl))
    /\ ~KeyAccepted(ai[1].apiKey)
    /\ result # Null
    /\ result[1].statusCode = 500
    /\ result[1].body.message =
          Some(<<"API key not valid. Please pass a valid API key.">>)

\* C40: the handler is total. Every invocation ends with a response, whose
\* status is 200, 400, 405 or 500, and none ends with an error thrown to the
\* platform; a POST whose body is no JSON is answered 500 (not 400), with
\* the error Failed to enhance drawing and without a call to Gemini; and an
\* invocation calls Gemini at most once.
C40_HandlerIsTotal ==
    /\ result # Null => result[1].statusCode \in {200, 400, 405, 500}
    /\ (event # Null /\ srvPc = "idle") => result # Null
    /\ Len(geminiCalls) <= 1
    /\ srvPc = "awaitGemini" => (result = Null /\ Len(geminiCalls) = 1)
    /\ (event # Null /\ event[1] = [httpMethod |-> "POST", body |-> Some(InvalidText)]) =>
          /\ srvPc = "idle"
          /\ result # Null
          /\ result[1].statusCode = 500
          /\ result[1].body.error = Some("Failed to enhance drawing")
          /\ result[1].body.message # Null
          /\ geminiCalls = <<>>

\* the second invocation of a run was a POST whose body is no JSON: it was
\* answered 500 without a call to Gemini
C40_Witness ==
    /\ event = Some([httpMethod |-> "POST", body |-> Some(InvalidText)])
    /\ result # Null
    /\ result[1].statusCode = 500
    /\ geminiOutcome = Null
    /\ geminiCalls = <<>>
    /\ invocations = 2

----------------------------------------------------------------------------
(* Properties of a request in flight *)

\* C34: the image of a request is the content of the surface when the
\* trigger was accepted (for a trigger of the router, the surface as the
\* frame found it, before the frame's own segment). While the request is in
\* flight frames are still processed - a frame of a held pinch draws its
\* segment - and no frame, skipped frame or click on clear changes the image
\* submitted or the orchestrator.
C34_SnapshotTakenAtAcceptance ==
    [][LET surface == IF ev'.op = "frame" /\ (\/ canvas.width # viewport.width
                                             \/ canvas.height # viewport.height)
                      THEN <<>> ELSE canvas.segs
       IN /\ outbound' > outbound => pending' = Append(pending, surface)
          /\ (isAnalysing /\ ev'.op \in {"frame", "skip", "clearClick"}) =>
                UNCHANGED <<isAnalysing, cooldownRemaining, pending, outbound,
                            enhancedImage>>
          /\ (isAnalysing /\ FrameStep /\ ev'.hit # Null /\ lastPoint # Null) =>
                /\ Len(ev'.drawn) = 1
                /\ canvas'.segs # <<>>
                /\ canvas'.segs[Len(canvas'.segs)] = ev'.drawn[1]]_vars

\* a request was accepted with one segment on the surface; the next frame
\* pinched over the clear control, which emptied the surface, and drew its own
\* segment: the image in flight is still the one submitted
C34_Witness ==
    /\ isAnalysing
    /\ ev.op = "frame"
    /\ ev.hit = Some(ClearButton)
    /\ Len(pending) = 1
    /\ Len(pending[1]) = 1
    /\ Len(ev.drawn) = 1
    /\ canvas.segs = ev.drawn
    /\ pending[1] # canvas.segs

\* C38: while a request is being analysed no enhanced image is held: in every
\* reachable state isAnalysing implies enhancedImage = null.
C38_NoImageWhileAnalysing == isAnalysing => enhancedImage = Null

\* a second trigger was accepted, after the cooldown of the first: whatever
\* image the first request had brought is gone
C38_Witness ==
    /\ ev.trigger = "accepted"
    /\ outbound = 2
    /\ isAnalysing
    /\ enhancedImage = Null
    /\ cooldownRemaining = ANALYZE_COOLDOWN_MS

\* C39: a response that arrives after the surface was cleared while its
\* request was in flight - nothing of the image submitted is on the surface
\* any more - is applied all the same: the image it brings is displayed,
\* isAnalysing becomes false, and the surface is left as it is.
C39_ResponseAppliedAfterClear ==
    [][(/\ ResponseStep
        /\ ev'.outcome = "image"
        /\ isAnalysing
        /\ pending # <<>> /\ pending[1] # <<>>
        /\ \A k \in 1..Len(pending[1]) :
              \A j \in 1..Len(canvas.segs) : canvas.segs[j] # pending[1][k]) =>
          /\ enhancedImage' = Some(EnhancedImageUrl)
          /\ ~isAnalysing'
          /\ canvas' = canvas]_vars

\* an image arrived and is displayed; of the two segments of the run only
\* the last is on the surface, which was not resized: the third frame pinched
\* over the clear control
C39_Witness ==
    /\ ev.op = "response"
    /\ ev.outcome = "image"
    /\ enhancedImage = Some(EnhancedImageUrl)
    /\ ~isAnalysing
    /\ outbound = 1
    /\ pending = <<>>
    /\ frames = 3
    /\ Len(runSegs) = 2
    /\ canvas.segs = <<runSegs[2]>>
    /\ canvas.width = InitialViewport.width

----------------------------------------------------------------------------
(* Properties of the two surfaces *)

\* C35: a processed frame resizes both surfaces to the viewport exactly when
\* the stroke surface has not the viewport's size - the stroke surface is
\* then blank but for the frame's own segment; otherwise neither surface is
\* resized and the stroke surface keeps its content; and after every processed
\* frame both surfaces have the viewport's size.
C35_SurfacesFollowViewport ==
    [][FrameStep =>
         LET differs == canvas.width # viewport.width \/ canvas.height # viewport.height
         IN /\ differs => canvas'.segs = ev'.drawn
            /\ (~differs /\ (ev'.hit = Null \/ ev'.hit # Some(ClearButton))) =>
                  canvas'.segs = canvas.segs \o ev'.drawn
            /\ ~differs => /\ cursorCanvas'.width = cursorCanvas.width
                           /\ cursorCanvas'.height = cursorCanvas.height
            /\ canvas'.width = viewport.width /\ canvas'.height = viewport.height
            /\ cursorCanvas'.width = viewport.width
            /\ cursorCanvas'.height = viewport.height]_vars

\* the window was made narrower with a segment on the surface: the frame that
\* followed gave both surfaces the new size and blanked the stroke surface
C35_Witness ==
    /\ ev.op = "frame"
    /\ frames = 3
    /\ viewport # InitialViewport
    /\ canvas.width = viewport.width /\ cursorCanvas.width = viewport.width
    /\ Len(runSegs) = 2
    /\ Len(canvas.segs) = 1

----------------------------------------------------------------------------
(* Properties of the tracker's flags and of the smoothed cursor *)

\* C36: in every state lastPoint is defined exactly when isDrawingRef is
\* true, and exactly when the pinch indicator was last set to true; a
\* processed frame without a hand clears the three and leaves the overlay
\* empty; a processed frame whose hand hovers clears lastPoint and
\* isDrawingRef.
C36_FlagsAgree ==
    /\ []((lastPoint # Null) = isDrawingRef /\ isDrawingRef = isPinching)
    /\ [][(FrameStep /\ ev'.hand = NoHand) =>
             /\ lastPoint' = Null /\ ~isDrawingRef' /\ ~isPinching'
             /\ cursorCanvas'.glyph = Null]_vars
    /\ [][(FrameStep /\ ev'.hand # NoHand /\ ~isPinchingNow(ev'.hand[1])) =>
             /\ lastPoint' = Null /\ ~isDrawingRef' /\ ~isPinching'
             /\ cursorCanvas'.glyph # Null]_vars

\* a hovering hand ended a run of pinching frames
C36_Witness ==
    /\ ev.op = "frame"
    /\ ev.hand = HoverB
    /\ prevRun.endedBy = "release"
    /\ prevRun.points = 2
    /\ lastPoint = Null /\ ~isDrawingRef /\ ~isPinching
    /\ cursorCanvas.glyph # Null

\* C37: every processed frame with a hand moves the smoothed cursor from
\* where it was towards the frame's target, by the smoothing factor; no other
\* step changes it - not a frame without a hand, not a skipped frame - so the
\* first frame after the hand is found again interpolates from the position
\* held, which is (0, 0) until the first frame with a hand.
C37_CursorHeldBetweenHands ==
    /\ [](approach.n = 0 => currentCursor = Point(0, 0))
    /\ [][IF FrameStep /\ ev'.hand # NoHand
          THEN currentCursor' =
                   Point(lerp(currentCursor.x, targetX(ev'.hand[1], canvas')),
                         lerp(currentCursor.y, targetY(ev'.hand[1], canvas')))
          ELSE currentCursor' = currentCursor]_vars

\* the hand was lost for a frame and found again at the same place: the
\* approach to the target went on from the position held
C37_Witness ==
    /\ ev.op = "frame"
    /\ ev.hand = PinchA
    /\ prevRun.endedBy = "noHand"
    /\ approach.n = 2
    /\ lastPoint = Some(currentCursor)
    /\ runSegs = <<>>

----------------------------------------------------------------------------
(* Properties of the version whose router calls handleAnalyze itself *)

\* C33: in the version whose router calls handleAnalyze under the guard
\* actionAttr === 'analyze' && !isAnalysing, a frame of a pinch held over the
\* analyze control while a request is in flight issues no request.
C33_HeldPinchInFlightIssuesNothing ==
    [][(/\ ev'.op = "frame"
        /\ ev'.hit = Some(AnalyzeButton)
        /\ isDrawingRef
        /\ isAnalysing) =>
          /\ outbound' = outbound
          /\ pending' = pending]_vars

====
